---- MODULE Spec2Model ----
(***************************************************************************)
(* Verification model of the call-audit application.                       *)
(*                                                                         *)
(*   SpecScore  calculateDeterministicScore (services/geminiService.ts),   *)
(*              driven by a caller that evaluates it on every input of     *)
(*              the bounded domain and then again with one argument        *)
(*              changed; the previous call is kept in `last`.              *)
(*   SpecRetry  withRetry (services/geminiService.ts) around a request     *)
(*              whose every invocation may resolve or reject with any of   *)
(*              the modelled error shapes.                                 *)
(***************************************************************************)
EXTENDS Integers, Sequences, FiniteSets, TLC

\* ------------------------------------------------------------------ bounds
\* Largest buying-signal count fed to the score function (the cap is 5, so
\* 6 and 7 are the counts above the cap).
MaxSignals == 7

\* ------------------------------------------------------------- score: data
VARIABLES
    compliance,        \* argument: checklist key -> BOOLEAN
    buyingSignals,     \* argument: count of buying signals
    leadType,          \* argument
    relationshipType,  \* argument
    dealOutcome,       \* argument
    finalScore,        \* local `finalScore` as assigned on line 107 (before scaling)
    score,             \* returned value, NoScore before the first call
    last               \* the previous call (arguments and result), NoCall if none

\* --------------------------------------------------------------- retry: data
VARIABLES
    pc,        \* position of withRetry: idle, awaiting, sleeping, returned, thrown
    retries,   \* parameter `retries` of the current (recursive) invocation
    calls,     \* number of times fn() has been invoked
    err,       \* error caught by the most recent catch block, NoErr if none
    delays,    \* the delays (ms) passed to setTimeout, in order
    thrown,    \* the error withRetry rejected with, NoErr if none
    result     \* the value withRetry resolved with, NoResult if none

scoreVars == <<compliance, buyingSignals, leadType, relationshipType,
               dealOutcome, finalScore, score, last>>
retryVars == <<pc, retries, calls, err, delays, thrown, result>>

\* ------------------------------------------------------------- handler: data
VARIABLES
    req,          \* the request being served: [method, body]
    hpc,          \* position of handler: start, awaiting, done
    bodyRead,     \* whether req.body has been read
    apiRequests,  \* the requests passed to ai.models.generateContent
    apiOutcome,   \* how generateContent settled: [ok, value], NoOutcome before
    res           \* the responses sent: [status, json]

handlerVars == <<req, hpc, bodyRead, apiRequests, apiOutcome, res>>

\* -------------------------------------------------------------- upload: data
VARIABLES
    clientName, clientPhone, clientConcern,  \* FileUpload form fields
    formLeadType, formRelationshipType,      \* FileUpload state leadType, relationshipType
    file,            \* the file handed to processFile: [type, ext]
    isProcessing,    \* FileUpload state
    statusLog,       \* every status set by setStatusMessage, in order
    error,           \* FileUpload state `error`: <<>> when null, else <<message>>
    upc,             \* position of processFile / analyzeAudioCall
    closure,         \* the form values processFile closed over
    knowledgeCalls,  \* number of getCompanyKnowledge calls
    analyzeCalls,    \* the arguments of each analyzeAudioCall call
    auditRequests,   \* number of audit requests issued
    auditError,      \* the error the audit request rejected with, NoErr if none
    caught,          \* the value caught by processFile (line 78), NoErr if none
    audioMetadata,   \* the parsed speech response, NoParsed before
    parsed,          \* the parsed audit response, NoParsed before
    completed        \* the results passed to onAnalysisComplete

uploadVars == <<clientName, clientPhone, clientConcern, formLeadType,
                formRelationshipType, file, isProcessing, statusLog, error,
                upc, closure, knowledgeCalls, analyzeCalls, auditRequests,
                auditError, caught, audioMetadata, parsed, completed>>

\* ----------------------------------------------------------------- app: data
VARIABLES
    currentUser,       \* App state: NoUser or the profile [id, role, status]
    stage,             \* App state: selection, credentials
    authMode,          \* App state: login, signup
    selectedRole,      \* App state: NoRole, ADMIN, RESPONDER
    isAuthenticating,  \* App state
    appError,          \* App state `error`: <<>> when null, else <<message>>
    isInitializing,    \* App state
    session,           \* auth.currentUser: SignedOut or the uid signed in
    accounts,          \* the uids that have an auth account
    userDocs,          \* the users collection: uid -> NoDoc or [id, role, status]
    listeners,         \* uids of the onAuthStateChanged callbacks awaiting getDoc
    apc,               \* position of handleAuthSubmit
    submitted,         \* locals of handleAuthSubmit: [uid, role, message]
    lastRead           \* the last profile a path acted on, and what it did

appVars == <<currentUser, stage, authMode, selectedRole, isAuthenticating,
             appError, isInitializing, session, accounts, userDocs, listeners,
             apc, submitted, lastRead>>

\* ----------------------------------------------------------- dashboard: data
VARIABLES
    user,            \* Dashboard prop `user`: [id, role]
    recentUploads,   \* Dashboard state: the list of reports shown
    isLoaded,        \* Dashboard state
    callReports,     \* the callReports collection: id -> NoReport or document
    saving,          \* handleAnalysisComplete calls awaiting setDoc
    deleting,        \* handleDeleteCallReport calls awaiting the backend
    usedIds,         \* report ids handed out by crypto.randomUUID so far
    lastDelete,      \* the last delete that ended: [id, role, outcome]
    loadResult       \* how loadData ended: none, resolved, rejected

dashVars == <<user, recentUploads, isLoaded, callReports, saving, deleting,
              usedIds, lastDelete, loadResult>>

\* ------------------------------------------------------------ overlays: data
VARIABLES
    selectedCall,       \* Dashboard state: TRUE when a report is selected
    isLiveActive,       \* Dashboard state
    selectedAgentId,    \* Dashboard state: TRUE when an agent is selected
    selectedSentiment,  \* Dashboard state: TRUE when a sentiment is selected
    showApprovalModal,  \* Dashboard state
    prevOverlayRef,     \* prevOverlayRef.current
    history,            \* the session history up to the current entry
    pendingBack,        \* history.back() calls not yet carried out
    lastEvent           \* the last overlay event: open, close, back, ...

overlayVars == <<selectedCall, isLiveActive, selectedAgentId,
                 selectedSentiment, showApprovalModal, prevOverlayRef,
                 history, pendingBack, lastEvent>>

\* --------------------------------------------------------------- store: data
VARIABLES
    companyKnowledge,      \* the settings/companyKnowledge document, or Null
    knowledgeBaseFiles,    \* ids of the knowledgeBaseFiles documents
    kbList,                \* Dashboard state: ids of the files listed
    instructions,          \* Dashboard state: the rules text being edited
    isSavingInstructions,  \* Dashboard state
    savingRules,           \* the argument of the saveAdminRules in flight
    isKbUploading,         \* Dashboard state
    kbError,               \* Dashboard state: <<>> when null, else <<message>>
    kbpc,                  \* position of handleKbUpload's reader.onload
    knowledgeJson,         \* local of reader.onload, Null before
    kbData,                \* local of reader.onload: id of the new file
    lastSavedRules         \* <<>>, or <<r>> for the last saveAdminRules(r) done

storeVars == <<companyKnowledge, knowledgeBaseFiles, kbList, instructions,
               isSavingInstructions, savingRules, isKbUploading, kbError,
               kbpc, knowledgeJson, kbData, lastSavedRules>>

\* ---------------------------------------------------------------- live: data
VARIABLES
    isActive,            \* LiveCopilot state
    isPreparing,         \* LiveCopilot state
    showGuide,           \* LiveCopilot state
    transcript,          \* LiveCopilot state: the transcript entries
    suggestions,         \* LiveCopilot state: the suggestion cards
    transcriptCalls,     \* number of onTranscript callbacks so far
    suggestionsAdded,    \* number of suggestion cards created so far
    lastSuggestionText   \* <<>>, or <<text>> of the last onSuggestion callback

liveVars == <<isActive, isPreparing, showGuide, transcript, suggestions,
              transcriptCalls, suggestionsAdded, lastSuggestionText>>

lateVars == <<dashVars, overlayVars, storeVars, liveVars>>

vars == <<scoreVars, retryVars, handlerVars, uploadVars, appVars, lateVars>>
notScore == <<retryVars, handlerVars, uploadVars, appVars, lateVars>>
notRetry == <<scoreVars, handlerVars, uploadVars, appVars, lateVars>>
notHandler == <<scoreVars, retryVars, uploadVars, appVars, lateVars>>
notUpload == <<scoreVars, handlerVars, appVars, lateVars>>
notApp == <<scoreVars, retryVars, handlerVars, uploadVars, lateVars>>
earlyVars == <<scoreVars, retryVars, handlerVars, uploadVars, appVars>>
notOverlay == <<earlyVars, dashVars, storeVars, liveVars>>
notDash == <<earlyVars, storeVars, liveVars>>
notStore == <<earlyVars, dashVars, overlayVars, liveVars>>
notLive == <<earlyVars, dashVars, overlayVars, storeVars>>

\* ------------------------------------------------------- score: definitions
LeadTypes == {"NEW_LEAD", "OLD_LEAD"}
RelationshipTypes == {"LEAD", "CLIENT"}
\* The four outcomes of the response schema, the empty string substituted
\* for a missing outcome, and a value outside the schema.
DealOutcomes == {"HardRejection", "SoftRejection", "Neutral",
                 "StrongInterest", "", "Unknown"}

checklistKeys == <<"dmVerified", "needDiscovery", "priceAdherence",
                   "objectionHandled", "hardCloseAttempted">>
ChecklistKeySet == {checklistKeys[i] : i \in DOMAIN checklistKeys}
keysToRemove == {"needDiscovery", "dmVerified"}

NotRemoved(key) == key \notin keysToRemove

\* Mutant: the two checks are dropped only when both conditions hold.
applicableChecks_Both(lt, rt) ==
    IF lt = "OLD_LEAD" /\ rt = "CLIENT"
    THEN SelectSeq(checklistKeys, NotRemoved)
    ELSE checklistKeys

applicableChecks(lt, rt) ==
    IF lt = "OLD_LEAD" \/ rt = "CLIENT"
    THEN SelectSeq(checklistKeys, NotRemoved)
    ELSE checklistKeys

\* Mutant: the failed checks are counted instead of the passed ones.
passed_Failed(c, lt, rt) ==
    LET app == applicableChecks(lt, rt)
    IN  Cardinality({i \in DOMAIN app : c[app[i]] = FALSE})

passed(c, lt, rt) ==
    LET app == applicableChecks(lt, rt)
    IN  Cardinality({i \in DOMAIN app : c[app[i]] = TRUE})

Min(a, b) == IF a <= b THEN a ELSE b

\* Math.round of the non-negative rational num/den: the nearest integer,
\* a tie going up.  The code computes in IEEE doubles; for every value the
\* function can produce (k/5*70, k/3*70 plus a multiple of 6, and n*0.15,
\* n*0.6 for n in 0..100) the double result rounds as the exact rational
\* does, so the arithmetic is carried out exactly here.
MathRound(num, den) == (2 * num + den) \div (2 * den)

\* Mutant: a count above the cap earns nothing instead of the cap.
buyingBoost_DropAboveCap(b) == IF b > 5 THEN 0 ELSE b * 6

\* Mutant: the cap is 6 signals instead of 5.
buyingBoost_CapSix(b) == Min(b, 6) * 6

buyingBoost(b) == Min(b, 5) * 6

\* finalScore as assigned on line 107:
\*   Math.min(100, Math.round((passed / applicable) * 70 + buyingBoost))
unscaledScore(c, b, lt, rt) ==
    LET n == Len(applicableChecks(lt, rt))
        p == passed(c, lt, rt)
    IN  Min(100, MathRound(p * 70 + buyingBoost(b) * n, n))

\* Mutant: the hard-rejection factor is 15 instead of 0.15.
hardScale_Percent(f, o) ==
    IF o = "HardRejection" THEN <<f[1] * 15, f[2]>> ELSE f

\* Mutant: a hard rejection is scaled by the soft-rejection factor.
hardScale_AsSoft(f, o) ==
    IF o = "HardRejection" THEN <<f[1] * 6, f[2] * 10>> ELSE f

\* The two `finalScore *= ...` statements, as a fraction <<num, den>>.
hardScale(f, o) ==
    IF o = "HardRejection" THEN <<f[1] * 15, f[2] * 100>> ELSE f

softScale(f, o) ==
    IF o = "SoftRejection" THEN <<f[1] * 6, f[2] * 10>> ELSE f

calculateDeterministicScore(c, b, lt, rt, o) ==
    LET f == softScale(hardScale(<<unscaledScore(c, b, lt, rt), 1>>, o), o)
    IN  MathRound(f[1], f[2])

NoScore == -1
NoCall == [none |-> TRUE]

Compliances == [ChecklistKeySet -> BOOLEAN]

ThisCall ==
    [compliance |-> compliance, buyingSignals |-> buyingSignals,
     leadType |-> leadType, relationshipType |-> relationshipType,
     dealOutcome |-> dealOutcome, finalScore |-> finalScore, score |-> score]

\* One synchronous call of calculateDeterministicScore(c, b, lt, rt, o).
Evaluate(c, b, lt, rt, o) ==
    /\ compliance' = c
    /\ buyingSignals' = b
    /\ leadType' = lt
    /\ relationshipType' = rt
    /\ dealOutcome' = o
    /\ finalScore' = unscaledScore(c, b, lt, rt)
    /\ score' = calculateDeterministicScore(c, b, lt, rt, o)

NoErr == [none |-> TRUE]
NoResult == [none |-> TRUE]

InitRetryVars ==
    /\ pc = "idle"
    /\ retries = 0
    /\ calls = 0
    /\ err = NoErr
    /\ delays = <<>>
    /\ thrown = NoErr
    /\ result = NoResult

\* No request has reached the handler.
NoBody == [none |-> TRUE]
NoOutcome == [none |-> TRUE]

IdleHandler ==
    /\ req = [method |-> "", body |-> NoBody]
    /\ hpc = "idle"
    /\ bodyRead = FALSE
    /\ apiRequests = <<>>
    /\ apiOutcome = NoOutcome
    /\ res = <<>>

Null == [null |-> TRUE]
NoParsed == [none |-> TRUE]

\* The FileUpload component as mounted (lines 17-25), no file chosen.
IdleUpload ==
    /\ clientName = <<>>
    /\ clientPhone = <<>>
    /\ clientConcern = <<>>
    /\ formLeadType = "NEW_LEAD"
    /\ formRelationshipType = "LEAD"
    /\ file = [type |-> "", ext |-> ""]
    /\ isProcessing = FALSE
    /\ statusLog = <<>>
    /\ error = <<>>
    /\ upc = "idle"
    /\ closure = Null
    /\ knowledgeCalls = 0
    /\ analyzeCalls = <<>>
    /\ auditRequests = 0
    /\ auditError = NoErr
    /\ caught = NoErr
    /\ audioMetadata = NoParsed
    /\ parsed = NoParsed
    /\ completed = <<>>

NoUser == [none |-> TRUE]
NoDoc == [none |-> TRUE]
NoRole == "null"

\* auth.currentUser when nobody is signed in
SignedOut == "null"
NoRead == [none |-> TRUE]
Uids == {"u1", "u2"}

\* The App component before it is mounted.
IdleApp ==
    /\ currentUser = NoUser
    /\ stage = "selection"
    /\ authMode = "login"
    /\ selectedRole = NoRole
    /\ isAuthenticating = FALSE
    /\ appError = <<>>
    /\ isInitializing = TRUE
    /\ session = SignedOut
    /\ accounts = {}
    /\ userDocs = [u \in Uids |-> NoDoc]
    /\ listeners = <<>>
    /\ apc = "unmounted"
    /\ submitted = NoRead
    /\ lastRead = NoRead

NoReport == [none |-> TRUE]
NoDelete == [none |-> TRUE]
ReportIds == {"r1", "r2", "r3", "r4"}

\* The Dashboard component before it is mounted.
IdleDash ==
    /\ user = [id |-> "", role |-> ""]
    /\ recentUploads = <<>>
    /\ isLoaded = FALSE
    /\ callReports = [r \in ReportIds |-> NoReport]
    /\ saving = {}
    /\ deleting = {}
    /\ usedIds = {}
    /\ lastDelete = NoDelete
    /\ loadResult = "none"

\* The Dashboard as mounted (lines 32-56): no overlay, nothing pushed.
IdleOverlay ==
    /\ selectedCall = FALSE
    /\ isLiveActive = FALSE
    /\ selectedAgentId = FALSE
    /\ selectedSentiment = FALSE
    /\ showApprovalModal = FALSE
    /\ prevOverlayRef = FALSE
    /\ history = <<"auth">>
    /\ pendingBack = 0
    /\ lastEvent = "none"

\* The admin's knowledge panel as mounted, the store empty. A text is the
\* sequence of its lines: <<"">> is the empty string.
IdleStore ==
    /\ companyKnowledge = Null
    /\ knowledgeBaseFiles = {}
    /\ kbList = {}
    /\ instructions = <<"">>
    /\ isSavingInstructions = FALSE
    /\ savingRules = <<"">>
    /\ isKbUploading = FALSE
    /\ kbError = <<>>
    /\ kbpc = "idle"
    /\ knowledgeJson = Null
    /\ kbData = ""
    /\ lastSavedRules = <<>>

\* The LiveCopilot component as mounted (lines 21-25).
IdleLive ==
    /\ isActive = FALSE
    /\ isPreparing = FALSE
    /\ showGuide = TRUE
    /\ transcript = <<>>
    /\ suggestions = <<>>
    /\ transcriptCalls = 0
    /\ suggestionsAdded = 0
    /\ lastSuggestionText = <<>>

IdleLate ==
    /\ IdleDash
    /\ IdleOverlay
    /\ IdleStore
    /\ IdleLive

InitScore ==
    /\ compliance \in Compliances
    /\ buyingSignals \in 0..MaxSignals
    /\ leadType \in LeadTypes
    /\ relationshipType \in RelationshipTypes
    /\ dealOutcome \in DealOutcomes
    /\ finalScore = NoScore
    /\ score = NoScore
    /\ last = NoCall
    /\ InitRetryVars
    /\ IdleHandler
    /\ IdleUpload
    /\ IdleApp
    /\ IdleLate

\* The first call, on the arguments drawn by InitScore.
FirstCall ==
    /\ score = NoScore
    /\ Evaluate(compliance, buyingSignals, leadType, relationshipType, dealOutcome)
    /\ last' = NoCall
    /\ UNCHANGED notScore

\* A further call in which one more check has passed.
PassCheck(key) ==
    /\ score # NoScore
    /\ compliance[key] = FALSE
    /\ Evaluate([compliance EXCEPT ![key] = TRUE], buyingSignals, leadType,
                relationshipType, dealOutcome)
    /\ last' = ThisCall
    /\ UNCHANGED notScore

\* A further call with a larger buying-signal count.
MoreSignals(b) ==
    /\ score # NoScore
    /\ b > buyingSignals
    /\ Evaluate(compliance, b, leadType, relationshipType, dealOutcome)
    /\ last' = ThisCall
    /\ UNCHANGED notScore

\* A further call with another deal outcome.
ChangeOutcome(o) ==
    /\ score # NoScore
    /\ o # dealOutcome
    /\ Evaluate(compliance, buyingSignals, leadType, relationshipType, o)
    /\ last' = ThisCall
    /\ UNCHANGED notScore

\* A further call with other values of the two intro-related checks.
ChangeIntroChecks(dm, nd) ==
    /\ score # NoScore
    /\ <<dm, nd>> # <<compliance["dmVerified"], compliance["needDiscovery"]>>
    /\ Evaluate([compliance EXCEPT !["dmVerified"] = dm, !["needDiscovery"] = nd],
                buyingSignals, leadType, relationshipType, dealOutcome)
    /\ last' = ThisCall
    /\ UNCHANGED notScore

\* A further call with another lead category.
ChangeCategory(lt, rt) ==
    /\ score # NoScore
    /\ <<lt, rt>> # <<leadType, relationshipType>>
    /\ Evaluate(compliance, buyingSignals, lt, rt, dealOutcome)
    /\ last' = ThisCall
    /\ UNCHANGED notScore

NextScore ==
    \/ FirstCall
    \/ \E key \in ChecklistKeySet : PassCheck(key)
    \/ \E b \in 0..MaxSignals : MoreSignals(b)
    \/ \E o \in DealOutcomes : ChangeOutcome(o)
    \/ \E dm \in BOOLEAN, nd \in BOOLEAN : ChangeIntroChecks(dm, nd)
    \/ \E lt \in LeadTypes, rt \in RelationshipTypes : ChangeCategory(lt, rt)

SpecScore == InitScore /\ [][NextScore]_vars

\* ------------------------------------------------------- retry: definitions
\* Default of the parameter `retries`; every call site uses the default.
DefaultRetries == 3

\* Error objects a rejected request carries.  An optional field is a
\* sequence of length at most one (<<>> is undefined); a message is its
\* sequence of characters (<<>> is a missing or empty message, both falsy
\* under `?.includes`).  `code` is err.error.code, <<>> when err.error or
\* its code is missing.
Messages == { <<>>, <<"4", "2", "9">>, <<"5", "0", "0">>,
              <<"1", "5", "0", "0">>, <<"5", "0", "5">> }
Statuses == { <<>>, <<429>>, <<500>> }
Codes == { <<>>, <<400>>, <<500>> }
ErrorShapes == [message : Messages, status : Statuses, code : Codes]

\* String.prototype.includes
includes(s, t) ==
    \E i \in 1..(Len(s) - Len(t) + 1) : SubSeq(s, i, i + Len(t) - 1) = t

\* Mutant: any error that carries a status counts as a 500.
isInternalError_AnyStatus(e) ==
    \/ includes(e.message, <<"5", "0", "0">>)
    \/ e.status # <<>>
    \/ e.code = <<500>>

isInternalError(e) ==
    \/ includes(e.message, <<"5", "0", "0">>)
    \/ e.status = <<500>>
    \/ e.code = <<500>>

\* Mutant: the last retry is never taken.
shouldRetry_OffByOne(r, e) == r > 1 /\ isInternalError(e)

\* Condition of the `if` on line 23.
shouldRetry(r, e) == r > 0 /\ isInternalError(e)

\* Mutant: the delay shrinks with each retry instead of growing.
delay_Shrinking(r) == r * 2000

\* const delay = (4 - retries) * 2000
delay(r) == (4 - r) * 2000

\* The score function has not been called.
IdleScore ==
    /\ compliance = [key \in ChecklistKeySet |-> FALSE]
    /\ buyingSignals = 0
    /\ leadType = "NEW_LEAD"
    /\ relationshipType = "LEAD"
    /\ dealOutcome = ""
    /\ finalScore = NoScore
    /\ score = NoScore
    /\ last = NoCall

InitRetry ==
    /\ InitRetryVars
    /\ IdleScore
    /\ IdleHandler
    /\ IdleUpload
    /\ IdleApp
    /\ IdleLate

\* withRetry(fn): the body runs to `await fn()`, the request is in flight.
withRetry ==
    /\ pc = "idle"
    /\ retries' = DefaultRetries
    /\ calls' = calls + 1
    /\ pc' = "awaiting"
    /\ UNCHANGED <<err, delays, thrown, result>>

Start == withRetry /\ UNCHANGED notRetry

\* fn() resolves: withRetry returns its value.
Resolve ==
    /\ pc = "awaiting"
    /\ result' = [at |-> calls]
    /\ pc' = "returned"
    /\ UNCHANGED <<retries, calls, err, delays, thrown, notRetry>>

\* fn() rejects with an error of shape e: the catch block, up to the
\* `await` of the timer or the rethrow.
Reject(e) ==
    /\ pc = "awaiting"
    /\ err' = [at |-> calls, shape |-> e]
    /\ IF shouldRetry(retries, e)
       THEN /\ delays' = Append(delays, delay(retries))
            /\ pc' = "sleeping"
            /\ UNCHANGED thrown
       ELSE /\ thrown' = err'
            /\ pc' = "thrown"
            /\ UNCHANGED delays
    /\ UNCHANGED <<retries, calls, result, notRetry>>

\* The timer fires: withRetry(fn, retries - 1) runs to its `await fn()`.
TimerFires ==
    /\ pc = "sleeping"
    /\ retries' = retries - 1
    /\ calls' = calls + 1
    /\ pc' = "awaiting"
    /\ UNCHANGED <<err, delays, thrown, result, notRetry>>

NextRetry ==
    \/ Start
    \/ Resolve
    \/ \E e \in ErrorShapes : Reject(e)
    \/ TimerFires

SpecRetry == InitRetry /\ [][NextRetry]_vars

\* The timer of line 26 always fires and the request always settles.
SpecRetryFair == SpecRetry /\ WF_vars(NextRetry)

\* ----------------------------------------------------- handler: definitions
\* api/gemini.ts.  An optional value is a sequence of length at most one
\* (<<>> is undefined); req.body is NoBody when the request carries none.
Methods == {"GET", "POST", "PUT", "DELETE"}
Models == { <<>>, <<"">>, <<"gemini-2.5-flash">> }
Contents == { <<>>, <<"">>, <<"hello">> }
Configs == { <<>>, <<"json">> }
Bodies == [model : Models, contents : Contents, config : Configs] \cup {NoBody}
Requests == [method : Methods, body : Bodies]

\* Outcomes of ai.models.generateContent: the text of a response, or the
\* message of the error it rejects with (<<>> is an error without message).
ResponseTexts == { <<>>, <<"answer">> }
ErrorMessages == { <<>>, <<"quota">> }

\* JavaScript `!x` for an optional string.
falsy(x) == x = <<>> \/ x = <<"">>

\* Mutant: the response is sent twice.
respond_Twice(code, payload) ==
    Append(Append(res, [status |-> code, json |-> payload]),
           [status |-> code, json |-> payload])

\* res.status(code).json(payload)
respond(code, payload) == Append(res, [status |-> code, json |-> payload])

\* The payload of the catch block (lines 34-37).
failure(message) ==
    [error |-> "Gemini request failed",
     details |-> IF falsy(message) THEN "Unknown error" ELSE message[1]]

\* Condition of the `if` on line 15; the body has been destructured.
missingFields(r) == falsy(r.body.model) \/ falsy(r.body.contents)

\* Mutant: the method is not checked.
methodAllowed_Any(r) == TRUE

\* Negation of the condition of the `if` on line 8.
methodAllowed(r) == r.method = "POST"

InitHandler ==
    /\ req \in Requests
    /\ hpc = "start"
    /\ bodyRead = FALSE
    /\ apiRequests = <<>>
    /\ apiOutcome = NoOutcome
    /\ res = <<>>
    /\ IdleScore
    /\ InitRetryVars
    /\ IdleUpload
    /\ IdleApp
    /\ IdleLate

\* handler(req, res) up to its first return or its `await`.
Handle ==
    /\ hpc = "start"
    /\ IF ~methodAllowed(req)
       THEN /\ res' = respond(405, [error |-> "Method not allowed"])
            /\ hpc' = "done"
            /\ UNCHANGED <<bodyRead, apiRequests>>
       ELSE /\ bodyRead' = TRUE
            /\ IF req.body = NoBody
               THEN \* destructuring undefined throws a TypeError, which
                    \* the catch block answers
                    /\ res' = respond(500, failure(<<"TypeError">>))
                    /\ hpc' = "done"
                    /\ UNCHANGED apiRequests
               ELSE IF missingFields(req)
               THEN /\ res' = respond(400, [error |-> "Missing model or contents"])
                    /\ hpc' = "done"
                    /\ UNCHANGED apiRequests
               ELSE /\ apiRequests' = Append(apiRequests, req.body)
                    /\ hpc' = "awaiting"
                    /\ UNCHANGED res
    /\ UNCHANGED <<req, apiOutcome, notHandler>>

\* generateContent resolves with a response whose text is `text`.
ApiResolves(text) ==
    /\ hpc = "awaiting"
    /\ apiOutcome' = [ok |-> TRUE, value |-> text]
    /\ res' = respond(200, [text |-> text])
    /\ hpc' = "done"
    /\ UNCHANGED <<req, bodyRead, apiRequests, notHandler>>

\* generateContent rejects with an error whose message is `message`.
ApiRejects(message) ==
    /\ hpc = "awaiting"
    /\ apiOutcome' = [ok |-> FALSE, value |-> message]
    /\ res' = respond(500, failure(message))
    /\ hpc' = "done"
    /\ UNCHANGED <<req, bodyRead, apiRequests, notHandler>>

NextHandler ==
    \/ Handle
    \/ \E text \in ResponseTexts : ApiResolves(text)
    \/ \E message \in ErrorMessages : ApiRejects(message)

SpecHandler == InitHandler /\ [][NextHandler]_vars

\* The inference API settles every request it is given.
SpecHandlerFair == SpecHandler /\ WF_vars(NextHandler)


\* ------------------------------------------------------ upload: definitions
\* components/FileUpload.tsx (processFile) and analyzeAudioCall of
\* services/geminiService.ts.  Strings that the code inspects are sequences
\* of characters; a fixed text the code only passes on is one element.
formVars == <<clientName, clientPhone, clientConcern, formLeadType,
              formRelationshipType>>

FieldValues == { <<>>, <<" ", " ">>, <<"R">> }
FileTypes == {"audio/mpeg", "application/pdf", ""}
FileExts == {"mp3", "MP3", "pdf", ""}

RECURSIVE trimStart(_)
trimStart(t) ==
    IF t # <<>> /\ Head(t) = " " THEN trimStart(Tail(t)) ELSE t

RECURSIVE trimEnd(_)
trimEnd(t) ==
    IF t # <<>> /\ t[Len(t)] = " " THEN trimEnd(SubSeq(t, 1, Len(t) - 1)) ELSE t

\* String.prototype.trim
trim(t) == trimEnd(trimStart(t))

\* Mutant: a field of blanks counts as filled in.
blankDetails_NoTrim(name, phone, concern) ==
    name = <<>> \/ phone = <<>> \/ concern = <<>>

\* Condition of the `if` on line 30.
blankDetails(name, phone, concern) ==
    trim(name) = <<>> \/ trim(phone) = <<>> \/ trim(concern) = <<>>

supportedMimeTypes ==
    {"audio/mpeg", "audio/wav", "audio/x-m4a", "audio/mp4", "audio/aac",
     "audio/x-aac", "audio/flac", "audio/x-flac", "audio/x-ms-wma",
     "video/mp4", "video/mpeg", "video/x-m4v"}

\* /\.(mp3|wav|m4a|mp4|mpeg|mpg|aac|flac|wma)$/i on the file name, of which
\* the model keeps the extension.
supportedExtensions ==
    {"mp3", "wav", "m4a", "mp4", "mpeg", "mpg", "aac", "flac", "wma"}

lowerExt(ext) == IF ext = "MP3" THEN "mp3" ELSE ext

\* Negation of the condition of the `if` on line 41.
supportedFile(f) ==
    f.type \in supportedMimeTypes \/ lowerExt(f.ext) \in supportedExtensions

\* String.prototype.toLowerCase on the modelled alphabet.
lowerChar(ch) == IF ch = "Q" THEN "q" ELSE ch
toLowerCase(t) == [i \in DOMAIN t |-> lowerChar(t[i])]

\* Thrown values: [isError, message, status]; isError is `instanceof Error`.
Thrown(isErr, message, status) ==
    [isError |-> isErr, message |-> message, status |-> status]

\* The catch block of processFile (lines 78-93): the message shown.
catchMessage(e) ==
    LET errorMessage == IF e.isError THEN e.message
                        ELSE <<"Failed to analyze media.">>
        isQuotaError ==
            \/ e.status = <<429>>
            \/ includes(errorMessage, <<"4", "2", "9">>)
            \/ includes(toLowerCase(errorMessage), <<"q", "u", "o", "t", "a">>)
            \/ includes(toLowerCase(errorMessage),
                        <<"e", "x", "h", "a", "u", "s", "t", "e", "d">>)
    IN  IF isQuotaError
        THEN <<"API Daily Limit Reached...wait for some times.">>
        ELSE errorMessage

\* Mutant: the flag is not cleared after a failure.
Fail_StillProcessing(e) ==
    /\ caught' = e
    /\ error' = <<catchMessage(e)>>
    /\ isProcessing' = isProcessing
    /\ upc' = "failed"

\* catch and finally of processFile.
Fail(e) ==
    /\ caught' = e
    /\ error' = <<catchMessage(e)>>
    /\ isProcessing' = FALSE
    /\ upc' = "failed"

\* The settings/companyKnowledge document: missing, or with `rules` a
\* string, an array or absent.
KnowledgeDocs ==
    {Null, [rules |-> [type |-> "string", value |-> "Be polite"]],
     [rules |-> [type |-> "array", value |-> "rule 1"]],
     [rules |-> [type |-> "undefined", value |-> ""]]}

\* Line 54.
instructionsOf(doc) ==
    IF doc # Null /\ doc.rules.type = "string" THEN doc.rules.value ELSE ""

\* Errors of the document store and of the inference API as processFile
\* sees them; each carries a message.
StoreErrors == {Thrown(TRUE, <<"o", "f", "f", "l", "i", "n", "e">>, <<>>)}
AuditErrors ==
    {Thrown(TRUE, <<"5", "0", "0">>, <<500>>),
     Thrown(TRUE, <<"Q", "u", "o", "t", "a">>, <<429>>),
     Thrown(TRUE, <<"b", "a", "d">>, <<400>>)}
SpeechErrors ==
    {[message |-> <<"5", "0", "0">>, status |-> <<500>>, code |-> <<500>>],
     [message |-> <<"4", "2", "9">>, status |-> <<429>>, code |-> <<>>],
     [message |-> <<>>, status |-> <<>>, code |-> <<>>]}

\* Response texts of the speech request: no text, text that is not JSON, or
\* JSON whose rawTranscript is absent (<<>>), null, an empty array or a
\* transcript.
AbsentField == <<>>
SpeechTexts ==
    {[kind |-> "none"], [kind |-> "malformed"]} \cup
    [kind : {"json"},
     rawTranscript : {AbsentField, <<"null">>, <<"[]">>, <<"segments">>}]

\* JSON.parse(text || "{}") of a text of kind none or json.
parseSpeech(text) ==
    IF text.kind = "none" THEN [rawTranscript |-> AbsentField]
    ELSE [rawTranscript |-> text.rawTranscript]

\* Mutant: the transcript is not checked before the audit.
noTranscript_Unchecked(meta) == FALSE

\* !audioMetadata.rawTranscript: undefined and null are falsy, an array,
\* even an empty one, is truthy.
noTranscript(meta) == meta.rawTranscript \in {AbsentField, <<"null">>}

\* Response texts of the audit request.  Optional fields are sequences of
\* length at most one; compliance is absent or one of four assignments.
AllChecks(b) == [key \in ChecklistKeySet |-> b]
AuditCompliances ==
    { <<>>, <<AllChecks(FALSE)>>, <<AllChecks(TRUE)>>,
      <<[AllChecks(TRUE) EXCEPT !["dmVerified"] = FALSE]>> }
AuditTexts ==
    {[kind |-> "none"], [kind |-> "malformed"]} \cup
    [kind : {"json"}, compliance : AuditCompliances,
     buyingSignals : { <<>>, <<0>>, <<3>>, <<7>> },
     dealOutcome : { <<>>, <<"HardRejection">>, <<"Neutral">> },
     conversionScore : { <<>>, <<99>> }]

parseAudit(text) ==
    IF text.kind = "none"
    THEN [compliance |-> <<>>, buyingSignals |-> <<>>, dealOutcome |-> <<>>,
          conversionScore |-> <<>>]
    ELSE [compliance |-> text.compliance, buyingSignals |-> text.buyingSignals,
          dealOutcome |-> text.dealOutcome,
          conversionScore |-> text.conversionScore]

\* Lines 324-332, with `parsed.buyingSignals || 0` and `parsed.dealOutcome
\* || ""`.  An absent compliance passes no check (compliance?.[key] === true
\* is false for every key).
deterministicScore(p, meta) ==
    calculateDeterministicScore(
        IF p.compliance = <<>> THEN AllChecks(FALSE) ELSE p.compliance[1],
        IF p.buyingSignals = <<>> THEN 0 ELSE p.buyingSignals[1],
        meta.leadType, meta.relationshipType,
        IF p.dealOutcome = <<>> THEN "" ELSE p.dealOutcome[1])

\* Mutant: the response is spread after conversionScore and overrides it.
auditResult_ParsedWins(p, meta) ==
    [conversionScore |-> IF p.conversionScore = <<>>
                         THEN deterministicScore(p, meta)
                         ELSE p.conversionScore[1],
     clientPhone |-> meta.phone, clientConcern |-> meta.concern]

\* Lines 334-369: { ...parsed, conversionScore: deterministicScore, ... }.
auditResult(p, meta) ==
    [conversionScore |-> deterministicScore(p, meta),
     clientPhone |-> meta.phone, clientConcern |-> meta.concern]

InitUpload ==
    /\ clientName \in FieldValues
    /\ clientPhone \in FieldValues
    /\ clientConcern \in FieldValues
    /\ formLeadType \in LeadTypes
    /\ formRelationshipType \in RelationshipTypes
    /\ file \in [type : FileTypes, ext : FileExts]
    /\ isProcessing = FALSE
    /\ statusLog = <<>>
    /\ error = <<>>
    /\ upc = "idle"
    /\ closure = Null
    /\ knowledgeCalls = 0
    /\ analyzeCalls = <<>>
    /\ auditRequests = 0
    /\ auditError = NoErr
    /\ caught = NoErr
    /\ audioMetadata = NoParsed
    /\ parsed = NoParsed
    /\ completed = <<>>
    /\ IdleScore
    /\ InitRetryVars
    /\ IdleHandler
    /\ IdleApp
    /\ IdleLate

\* processFile(file) up to its first return or `await` (lines 29-51).
ProcessFile ==
    /\ upc = "idle"
    /\ closure' = [name |-> clientName, phone |-> clientPhone,
                   concern |-> clientConcern, leadType |-> formLeadType,
                   relationshipType |-> formRelationshipType]
    /\ IF blankDetails(clientName, clientPhone, clientConcern)
       THEN /\ error' = << <<"Please fill in all client details (Name, Number, Concern) before uploading.">> >>
            /\ upc' = "rejected"
            /\ UNCHANGED <<isProcessing, statusLog, knowledgeCalls>>
       ELSE IF ~supportedFile(file)
       THEN /\ error' = << <<"Unsupported format. Please upload Audio (MP3, WAV, M4A) or Video (MP4, MPEG) files.">> >>
            /\ upc' = "rejected"
            /\ UNCHANGED <<isProcessing, statusLog, knowledgeCalls>>
       ELSE /\ isProcessing' = TRUE
            /\ error' = <<>>
            /\ statusLog' = Append(statusLog, "Gathering context...")
            /\ knowledgeCalls' = knowledgeCalls + 1
            /\ upc' = "knowledge"
    /\ UNCHANGED <<formVars, file, analyzeCalls, auditRequests, auditError,
                   caught, audioMetadata, parsed, completed, retryVars,
                   notUpload>>

\* getCompanyKnowledge resolves: lines 51-70, into analyzeAudioCall up to
\* `await fileToBase64(audioFile)`.
KnowledgeResolves(kdoc) ==
    /\ upc = "knowledge"
    /\ statusLog' = Append(statusLog, "Uploading and preparing media...")
    /\ analyzeCalls' = Append(analyzeCalls,
           [clientMetadata |-> closure, knowledgeJson |-> kdoc,
            additionalInstructions |-> instructionsOf(kdoc)])
    /\ upc' = "reading"
    /\ UNCHANGED <<formVars, file, isProcessing, error, closure, knowledgeCalls,
                   auditRequests, auditError, caught, audioMetadata, parsed,
                   completed, retryVars, notUpload>>

\* getCompanyKnowledge rejects.
KnowledgeRejects(e) ==
    /\ upc = "knowledge"
    /\ Fail(e)
    /\ UNCHANGED <<formVars, file, statusLog, closure, knowledgeCalls,
                   analyzeCalls, auditRequests, auditError, audioMetadata,
                   parsed, completed, retryVars, notUpload>>

\* fileToBase64 resolves: lines 136-154, the speech request is issued
\* through withRetry.
ReadResolves ==
    /\ upc = "reading"
    /\ statusLog' = Append(statusLog, "Detecting speech & behavioral cues...")
    /\ withRetry
    /\ upc' = "speech"
    /\ UNCHANGED <<formVars, file, isProcessing, error, closure, knowledgeCalls,
                   analyzeCalls, auditRequests, auditError, caught,
                   audioMetadata, parsed, completed, notUpload>>

\* fileToBase64 rejects with the FileReader's error event.
ReadRejects ==
    /\ upc = "reading"
    /\ Fail(Thrown(FALSE, <<>>, <<>>))
    /\ UNCHANGED <<formVars, file, statusLog, closure, knowledgeCalls,
                   analyzeCalls, auditRequests, auditError, audioMetadata,
                   parsed, completed, retryVars, notUpload>>

\* withRetry rejected: lines 196-198 and the catch of processFile.
SpeechThrown ==
    /\ upc = "speech"
    /\ pc = "thrown"
    /\ Fail(Thrown(TRUE, <<"Speech analysis failed. ">> \o thrown.shape.message, <<>>))
    /\ UNCHANGED <<formVars, file, statusLog, closure, knowledgeCalls,
                   analyzeCalls, auditRequests, auditError, audioMetadata,
                   parsed, completed, retryVars, notUpload>>

\* withRetry resolved with a response of text `text`: lines 200-236.
SpeechReturned(text) ==
    /\ upc = "speech"
    /\ pc = "returned"
    /\ IF text.kind = "malformed"
       THEN /\ Fail(Thrown(TRUE, <<"Unexpected token">>, <<>>))
            /\ UNCHANGED <<statusLog, auditRequests, audioMetadata>>
       ELSE /\ audioMetadata' = parseSpeech(text)
            /\ IF noTranscript(parseSpeech(text))
               THEN /\ Fail(Thrown(TRUE, <<"No conversation detected.">>, <<>>))
                    /\ UNCHANGED <<statusLog, auditRequests>>
               ELSE /\ statusLog' = Append(statusLog, "Auditing against knowledge base...")
                    /\ auditRequests' = auditRequests + 1
                    /\ upc' = "audit"
                    /\ UNCHANGED <<error, isProcessing, caught>>
    /\ UNCHANGED <<formVars, file, closure, knowledgeCalls, analyzeCalls,
                   auditError, parsed, completed, retryVars, notUpload>>

\* The audit request resolves with a response of text `text`: lines
\* 322-371, then lines 72-77 and the finally of processFile.
AuditResolves(text) ==
    /\ upc = "audit"
    /\ IF text.kind = "malformed"
       THEN /\ Fail(Thrown(TRUE, <<"Unexpected token">>, <<>>))
            /\ UNCHANGED <<formVars, parsed, completed>>
       ELSE /\ parsed' = parseAudit(text)
            /\ completed' = Append(completed, auditResult(parseAudit(text), closure))
            /\ clientName' = <<>>
            /\ clientPhone' = <<>>
            /\ clientConcern' = <<>>
            /\ formLeadType' = "NEW_LEAD"
            /\ formRelationshipType' = "LEAD"
            /\ isProcessing' = FALSE
            /\ upc' = "done"
            /\ UNCHANGED <<error, caught>>
    /\ UNCHANGED <<file, statusLog, closure, knowledgeCalls, analyzeCalls,
                   auditRequests, auditError, audioMetadata, retryVars,
                   notUpload>>

\* The audit request rejects: the error reaches the catch of processFile.
AuditRejects(e) ==
    /\ upc = "audit"
    /\ auditError' = e
    /\ Fail(e)
    /\ UNCHANGED <<formVars, file, statusLog, closure, knowledgeCalls,
                   analyzeCalls, auditRequests, audioMetadata, parsed,
                   completed, retryVars, notUpload>>

NextUpload ==
    \/ ProcessFile
    \/ \E kdoc \in KnowledgeDocs : KnowledgeResolves(kdoc)
    \/ \E e \in StoreErrors : KnowledgeRejects(e)
    \/ ReadResolves
    \/ ReadRejects
    \/ Resolve
    \/ \E e \in SpeechErrors : Reject(e)
    \/ TimerFires
    \/ SpeechThrown
    \/ \E text \in SpeechTexts : SpeechReturned(text)
    \/ \E text \in AuditTexts : AuditResolves(text)
    \/ \E e \in AuditErrors : AuditRejects(e)

SpecUpload == InitUpload /\ [][NextUpload]_vars


\* --------------------------------------------------------- app: definitions
\* The App component (login portal): role selection, credentials form,
\* handleAuthSubmit, the onAuthStateChanged listener and the role check.
\* The auth provider and the users collection are part of the state; a
\* change of the auth state invokes the listener at once, its getDoc
\* resolves later.
Roles == {"ADMIN", "RESPONDER"}
ProfileStatuses == {"VERIFIED", "UNVERIFIED"}

\* Most listener callbacks awaiting getDoc at a time.
MaxListeners == 1

Profile(uid, role, status) == [id |-> uid, role |-> role, status |-> status]

\* Lines 207-215: the dashboard is rendered instead of the portal.
DashboardShown ==
    /\ ~isInitializing
    /\ currentUser # NoUser /\ selectedRole # NoRole
    /\ currentUser.role = selectedRole

PortalShown == apc # "unmounted" /\ ~isInitializing /\ ~DashboardShown

\* currentUser after signOut(auth) has been called by a step that leaves
\* currentUser at cu: a signed-in session ends and the listener is invoked
\* with null (line 72).
afterSignOut(cu) == IF session # SignedOut THEN NoUser ELSE cu

Read(path, status, userSet, signedOut, errorSet) ==
    [path |-> path, status |-> status, userSet |-> userSet,
     signedOut |-> signedOut, errorSet |-> errorSet]

InitApp ==
    /\ currentUser = NoUser
    /\ stage = "selection"
    /\ authMode = "login"
    /\ selectedRole = NoRole
    /\ isAuthenticating = FALSE
    /\ appError = <<>>
    /\ isInitializing = TRUE
    /\ accounts = {"u1"}
    /\ session \in {SignedOut, "u1"}
    /\ \E d \in {NoDoc, Profile("u1", "RESPONDER", "UNVERIFIED"),
                 Profile("u1", "RESPONDER", "VERIFIED"),
                 Profile("u1", "ADMIN", "VERIFIED")} :
          userDocs = [u \in Uids |-> IF u = "u1" THEN d ELSE NoDoc]
    /\ listeners = <<>>
    /\ apc = "unmounted"
    /\ submitted = NoRead
    /\ lastRead = NoRead
    /\ IdleScore
    /\ InitRetryVars
    /\ IdleHandler
    /\ IdleUpload
    /\ IdleLate

\* The effect of lines 45-78 runs: the listener is registered and invoked
\* with the persisted auth state.
Mount ==
    /\ apc = "unmounted"
    /\ apc' = "idle"
    /\ IF session = SignedOut
       THEN /\ currentUser' = NoUser
            /\ isInitializing' = FALSE
            /\ UNCHANGED listeners
       ELSE /\ listeners' = Append(listeners, session)
            /\ UNCHANGED <<currentUser, isInitializing>>
    /\ UNCHANGED <<stage, authMode, selectedRole, isAuthenticating, appError,
                   session, accounts, userDocs, submitted, lastRead, notApp>>

handleRoleSelect(role) ==
    /\ PortalShown /\ stage = "selection"
    /\ selectedRole' = role
    /\ stage' = "credentials"
    /\ appError' = <<>>
    /\ UNCHANGED <<currentUser, authMode, isAuthenticating, isInitializing,
                   session, accounts, userDocs, listeners, apc, submitted,
                   lastRead, notApp>>

handleBack ==
    /\ PortalShown /\ stage = "credentials"
    /\ stage' = "selection"
    /\ selectedRole' = NoRole
    /\ appError' = <<>>
    /\ UNCHANGED <<currentUser, authMode, isAuthenticating, isInitializing,
                   session, accounts, userDocs, listeners, apc, submitted,
                   lastRead, notApp>>

\* handlePopState (lines 36-38): the browser's Back.
PopState ==
    /\ apc # "unmounted" /\ stage = "credentials"
    /\ stage' = "selection"
    /\ UNCHANGED <<currentUser, authMode, selectedRole, isAuthenticating,
                   appError, isInitializing, session, accounts, userDocs,
                   listeners, apc, submitted, lastRead, notApp>>

\* The toggle of lines 390-395, rendered unless selectedRole is ADMIN.
ToggleAuthMode ==
    /\ PortalShown /\ stage = "credentials"
    /\ selectedRole # "ADMIN"
    /\ authMode' = IF authMode = "login" THEN "signup" ELSE "login"
    /\ UNCHANGED <<currentUser, stage, selectedRole, isAuthenticating,
                   appError, isInitializing, session, accounts, userDocs,
                   listeners, apc, submitted, lastRead, notApp>>

\* status of a profile created by sign-up (line 126)
signupStatus(role) == IF role = "ADMIN" THEN "VERIFIED" ELSE "UNVERIFIED"

\* handleAuthSubmit up to its first `await` (lines 107-117, 137); the form
\* holds the e-mail of account uid and a full name that is blank or not.
Submit(uid, nameGiven) ==
    /\ PortalShown /\ stage = "credentials"
    /\ apc = "idle" /\ ~isAuthenticating
    /\ IF authMode = "signup"
       THEN IF ~nameGiven \/ selectedRole = NoRole
            THEN /\ appError' = << IF ~nameGiven THEN "Full name is required."
                                   ELSE "User role must be selected." >>
                 /\ UNCHANGED <<isAuthenticating, apc, submitted>>
            ELSE /\ appError' = <<>>
                 /\ isAuthenticating' = TRUE
                 /\ apc' = "createUser"
                 /\ submitted' = [uid |-> uid, role |-> selectedRole, message |-> ""]
       ELSE /\ appError' = <<>>
            /\ isAuthenticating' = TRUE
            /\ apc' = "signIn"
            /\ submitted' = [uid |-> uid, role |-> selectedRole, message |-> ""]
    /\ UNCHANGED <<currentUser, stage, authMode, selectedRole, isInitializing,
                   session, accounts, userDocs, listeners, lastRead, notApp>>

\* createUserWithEmailAndPassword resolves: the account exists and is
\* signed in, the listener is invoked, setDoc is issued (lines 117-128).
CreateUserResolves ==
    /\ apc = "createUser"
    /\ submitted.uid \notin accounts
    /\ Len(listeners) < MaxListeners
    /\ accounts' = accounts \cup {submitted.uid}
    /\ session' = submitted.uid
    /\ listeners' = Append(listeners, submitted.uid)
    /\ apc' = "setDoc"
    /\ UNCHANGED <<currentUser, stage, authMode, selectedRole, isAuthenticating,
                   appError, isInitializing, userDocs, submitted, lastRead,
                   notApp>>

\* A rejected step of handleAuthSubmit: catch and finally (lines 168-186).
AuthFails(message) ==
    /\ appError' = <<message>>
    /\ isAuthenticating' = FALSE
    /\ apc' = "idle"

\* createUserWithEmailAndPassword rejects.
CreateUserRejects ==
    /\ apc = "createUser"
    /\ AuthFails(IF submitted.uid \in accounts
                 THEN "User already exists. Please sign in"
                 ELSE "Password should be at least 6 characters.")
    /\ UNCHANGED <<currentUser, stage, authMode, selectedRole, isInitializing,
                   session, accounts, userDocs, listeners, submitted, lastRead,
                   notApp>>

\* Mutant: a profile created by sign-up is shown whatever its status.
pendingApproval_Never(status) == FALSE

\* Condition of the `if`s on lines 55, 130 and 146.
pendingApproval(status) == status = "UNVERIFIED"

\* setDoc resolves: the profile is stored; lines 130-135 and the finally,
\* or up to `await signOut(auth)`.
SetDocResolves ==
    /\ apc = "setDoc"
    /\ LET newUser == Profile(submitted.uid, submitted.role,
                              signupStatus(submitted.role))
       IN  /\ userDocs' = [userDocs EXCEPT ![submitted.uid] = newUser]
           /\ IF pendingApproval(newUser.status)
              THEN /\ appError' = <<"Account created. Please wait for admin approval before logging in.">>
                   /\ session' = SignedOut
                   /\ currentUser' = afterSignOut(currentUser)
                   /\ apc' = "signOut"
                   /\ submitted' = [submitted EXCEPT !.message = "Account created. Please wait for admin approval before logging in."]
                   /\ lastRead' = Read("signup", newUser.status, FALSE, TRUE, TRUE)
                   /\ UNCHANGED isAuthenticating
              ELSE /\ currentUser' = newUser
                   /\ isAuthenticating' = FALSE
                   /\ apc' = "idle"
                   /\ lastRead' = Read("signup", newUser.status, TRUE, FALSE, FALSE)
                   /\ UNCHANGED <<appError, session, submitted>>
    /\ UNCHANGED <<stage, authMode, selectedRole, isInitializing, accounts,
                   listeners, notApp>>

\* setDoc rejects.
SetDocRejects ==
    /\ apc = "setDoc"
    /\ AuthFails("Missing or insufficient permissions.")
    /\ UNCHANGED <<currentUser, stage, authMode, selectedRole, isInitializing,
                   session, accounts, userDocs, listeners, submitted, lastRead,
                   notApp>>

\* signInWithEmailAndPassword resolves: the account is signed in, the
\* listener is invoked, getDoc is issued (lines 137-141).
SignInResolves ==
    /\ apc = "signIn"
    /\ submitted.uid \in accounts
    /\ Len(listeners) < MaxListeners
    /\ session' = submitted.uid
    /\ listeners' = Append(listeners, submitted.uid)
    /\ apc' = "getDoc"
    /\ UNCHANGED <<currentUser, stage, authMode, selectedRole, isAuthenticating,
                   appError, isInitializing, accounts, userDocs, submitted,
                   lastRead, notApp>>

\* signInWithEmailAndPassword rejects (unknown account, wrong password).
SignInRejects ==
    /\ apc = "signIn"
    /\ AuthFails("Email or password is incorrect")
    /\ UNCHANGED <<currentUser, stage, authMode, selectedRole, isInitializing,
                   session, accounts, userDocs, listeners, submitted, lastRead,
                   notApp>>

\* getDoc of the login path resolves (lines 143-166): the profile is shown,
\* or signOut is called and an error is about to be thrown.
LoginGetDocResolves ==
    /\ apc = "getDoc"
    /\ LET existingUser == userDocs[submitted.uid]
           refuse(message, status) ==
               /\ session' = SignedOut
               /\ currentUser' = afterSignOut(currentUser)
               /\ apc' = "signOut"
               /\ submitted' = [submitted EXCEPT !.message = message]
               /\ lastRead' = Read("login", status, FALSE, TRUE, TRUE)
               /\ UNCHANGED isAuthenticating
       IN  IF existingUser = NoDoc
           THEN refuse("Your profile data is missing. Please sign up again.", "missing")
           ELSE IF pendingApproval(existingUser.status)
           THEN refuse("Account pending admin approval.", existingUser.status)
           ELSE IF existingUser.role # selectedRole
           THEN refuse("Invalid credentials", existingUser.status)
           ELSE /\ currentUser' = existingUser
                /\ isAuthenticating' = FALSE
                /\ apc' = "idle"
                /\ lastRead' = Read("login", existingUser.status, TRUE, FALSE, FALSE)
                /\ UNCHANGED <<session, submitted>>
    /\ UNCHANGED <<stage, authMode, selectedRole, appError, isInitializing,
                   accounts, userDocs, listeners, notApp>>

\* getDoc of the login path rejects.
LoginGetDocRejects ==
    /\ apc = "getDoc"
    /\ AuthFails("Failed to get document because the client is offline.")
    /\ UNCHANGED <<currentUser, stage, authMode, selectedRole, isInitializing,
                   session, accounts, userDocs, listeners, submitted, lastRead,
                   notApp>>

\* `await signOut(auth)` of handleAuthSubmit resolves: the sign-up path
\* ends, the login path throws; the finally runs.
SignOutResolves ==
    /\ apc = "signOut"
    /\ AuthFails(submitted.message)
    /\ UNCHANGED <<currentUser, stage, authMode, selectedRole, isInitializing,
                   session, accounts, userDocs, listeners, submitted, lastRead,
                   notApp>>

RemoveAt(q, i) == SubSeq(q, 1, i - 1) \o SubSeq(q, i + 1, Len(q))

\* getDoc of listener callback i resolves (lines 51-74), or rejects when
\* `fails`.
ListenerGetDoc(i, fails) ==
    /\ i \in DOMAIN listeners
    /\ LET uid == listeners[i]
           userData == userDocs[uid]
           refuse(message, status) ==
               /\ appError' = <<message>>
               /\ session' = SignedOut
               /\ currentUser' = afterSignOut(currentUser)
               /\ lastRead' = Read("listener", status, FALSE, TRUE, TRUE)
       IN  IF fails
           THEN refuse("Failed to load user profile. Please try again.", "unread")
           ELSE IF userData = NoDoc
           THEN refuse("Your profile data is missing. Please try signing up again.", "missing")
           ELSE IF pendingApproval(userData.status)
           THEN refuse("Account pending admin approval. Please wait for verification.", userData.status)
           ELSE /\ currentUser' = Profile(uid, userData.role, userData.status)
                /\ lastRead' = Read("listener", userData.status, TRUE, FALSE, FALSE)
                /\ UNCHANGED <<appError, session>>
    /\ listeners' = RemoveAt(listeners, i)
    /\ isInitializing' = FALSE
    /\ UNCHANGED <<stage, authMode, selectedRole, isAuthenticating, accounts,
                   userDocs, apc, submitted, notApp>>

\* The effect of lines 80-92: the stored role differs from the selected one.
RoleEffect ==
    /\ currentUser # NoUser /\ selectedRole # NoRole
    /\ currentUser.role # selectedRole
    /\ appError # <<"Invalid credentials for selected role">>
    /\ session' = SignedOut
    /\ currentUser' = afterSignOut(currentUser)
    /\ appError' = <<"Invalid credentials for selected role">>
    /\ UNCHANGED <<stage, authMode, selectedRole, isAuthenticating,
                   isInitializing, accounts, userDocs, listeners, apc,
                   submitted, lastRead, notApp>>

\* handleLogout from the dashboard (lines 189-196).
handleLogout ==
    /\ DashboardShown
    /\ session' = SignedOut
    /\ currentUser' = afterSignOut(currentUser)
    /\ UNCHANGED <<stage, authMode, selectedRole, isAuthenticating, appError,
                   isInitializing, accounts, userDocs, listeners, apc,
                   submitted, lastRead, notApp>>

\* An administrator approves a pending profile (verifyUser).
verifyUser(uid) ==
    /\ userDocs[uid] # NoDoc /\ userDocs[uid].status = "UNVERIFIED"
    /\ userDocs' = [userDocs EXCEPT ![uid].status = "VERIFIED"]
    /\ UNCHANGED <<currentUser, stage, authMode, selectedRole, isAuthenticating,
                   appError, isInitializing, session, accounts, listeners, apc,
                   submitted, lastRead, notApp>>

\* An administrator rejects a pending profile (rejectUser).
rejectUser(uid) ==
    /\ userDocs[uid] # NoDoc /\ userDocs[uid].status = "UNVERIFIED"
    /\ userDocs' = [userDocs EXCEPT ![uid] = NoDoc]
    /\ UNCHANGED <<currentUser, stage, authMode, selectedRole, isAuthenticating,
                   appError, isInitializing, session, accounts, listeners, apc,
                   submitted, lastRead, notApp>>

NextApp ==
    \/ Mount
    \/ \E role \in Roles : handleRoleSelect(role)
    \/ handleBack
    \/ PopState
    \/ ToggleAuthMode
    \/ \E uid \in Uids, nameGiven \in BOOLEAN : Submit(uid, nameGiven)
    \/ CreateUserResolves
    \/ CreateUserRejects
    \/ SetDocResolves
    \/ SetDocRejects
    \/ SignInResolves
    \/ SignInRejects
    \/ LoginGetDocResolves
    \/ LoginGetDocRejects
    \/ SignOutResolves
    \/ \E i \in 1..MaxListeners, fails \in BOOLEAN : ListenerGetDoc(i, fails)
    \/ RoleEffect
    \/ handleLogout
    \/ \E uid \in Uids : verifyUser(uid)
    \/ \E uid \in Uids : rejectUser(uid)

SpecApp == InitApp /\ [][NextApp]_vars


\* ---------------------------------------------------- overlays: definitions
\* The Dashboard's overlays and its "Mobile Back Button Management" effect
\* (lines 58-83). A state change and the effect that follows its render
\* are one step; history.back() is carried out later.
Overlays == {"selectedCall", "isLiveActive", "selectedAgentId",
             "selectedSentiment", "showApprovalModal"}

\* Most history.back() calls waiting at a time.
MaxPending == 2

\* Line 61.
isOverlayOpen(c, l, a, s, m) == c \/ l \/ a \/ s \/ m

\* window.history.state?.isDashboardOverlay
isDashboardOverlay(h) == h[Len(h)] = "overlay"

\* Mutant: the effect pushes an entry whenever an overlay is open.
effect_AlwaysPush(open, h, p) ==
    /\ IF open
       THEN /\ history' = Append(h, "overlay")
            /\ pendingBack' = p
       ELSE IF ~open /\ prevOverlayRef /\ isDashboardOverlay(h)
       THEN /\ history' = h
            /\ pendingBack' = p + 1
       ELSE /\ history' = h
            /\ pendingBack' = p
    /\ prevOverlayRef' = open

\* The effect of lines 60-82, run with the overlays as rendered, the
\* history h as it is when the effect runs and p calls of history.back()
\* waiting.
effect(open, h, p) ==
    /\ IF open /\ ~prevOverlayRef
       THEN /\ history' = Append(h, "overlay")
            /\ pendingBack' = p
       ELSE IF ~open /\ prevOverlayRef /\ isDashboardOverlay(h)
       THEN /\ history' = h
            /\ pendingBack' = p + 1
       ELSE /\ history' = h
            /\ pendingBack' = p
    /\ prevOverlayRef' = open

\* The five overlay states are set to the given values and rendered.
setOverlays(c, l, a, s, m, h, p) ==
    /\ selectedCall' = c
    /\ isLiveActive' = l
    /\ selectedAgentId' = a
    /\ selectedSentiment' = s
    /\ showApprovalModal' = m
    /\ effect(isOverlayOpen(c, l, a, s, m), h, p)

setOverlay(o, v) ==
    setOverlays(IF o = "selectedCall" THEN v ELSE selectedCall,
                IF o = "isLiveActive" THEN v ELSE isLiveActive,
                IF o = "selectedAgentId" THEN v ELSE selectedAgentId,
                IF o = "selectedSentiment" THEN v ELSE selectedSentiment,
                IF o = "showApprovalModal" THEN v ELSE showApprovalModal,
                history, pendingBack)

isSet(o) ==
    CASE o = "selectedCall" -> selectedCall
      [] o = "isLiveActive" -> isLiveActive
      [] o = "selectedAgentId" -> selectedAgentId
      [] o = "selectedSentiment" -> selectedSentiment
      [] o = "showApprovalModal" -> showApprovalModal

\* The browser moves back to the entry below; handlePopState (lines 72-78)
\* runs and the Dashboard is rendered, p calls of history.back() waiting.
popState(p) ==
    setOverlays(FALSE, FALSE, FALSE, FALSE, FALSE,
                SubSeq(history, 1, Len(history) - 1), p)

InitOverlay ==
    /\ selectedCall = FALSE
    /\ isLiveActive = FALSE
    /\ selectedAgentId = FALSE
    /\ selectedSentiment = FALSE
    /\ showApprovalModal = FALSE
    /\ prevOverlayRef = FALSE
    /\ history \in {<<"auth">>, <<"page", "auth">>, <<"page", "page", "auth">>}
    /\ pendingBack = 0
    /\ lastEvent = "none"
    /\ IdleScore
    /\ InitRetryVars
    /\ IdleHandler
    /\ IdleUpload
    /\ IdleApp
    /\ IdleDash
    /\ IdleStore
    /\ IdleLive

\* An overlay is opened through the UI (lines 394, 468-476, 496, 520, 557,
\* 656).
OpenOverlay(o) ==
    /\ ~isSet(o)
    /\ setOverlay(o, TRUE)
    /\ lastEvent' = "open"
    /\ UNCHANGED notOverlay

\* An overlay is closed through the UI (lines 420, 487, 546, 835, 839).
CloseOverlay(o) ==
    /\ isSet(o)
    /\ pendingBack < MaxPending
    /\ setOverlay(o, FALSE)
    /\ lastEvent' = "close"
    /\ UNCHANGED notOverlay

\* The browser's Back: the entry below becomes current and popstate fires.
BrowserBack ==
    /\ Len(history) > 1
    /\ pendingBack < MaxPending
    /\ popState(pendingBack)
    /\ lastEvent' = IF isOverlayOpen(selectedCall, isLiveActive,
                                     selectedAgentId, selectedSentiment,
                                     showApprovalModal)
                    THEN "backOpen" ELSE "backClosed"
    /\ UNCHANGED notOverlay

\* A history.back() called by the effect is carried out.
HistoryBack ==
    /\ pendingBack > 0
    /\ IF Len(history) > 1
       THEN popState(pendingBack - 1)
       ELSE \* no entry below: history.back() does nothing
            /\ pendingBack' = pendingBack - 1
            /\ UNCHANGED <<selectedCall, isLiveActive, selectedAgentId,
                           selectedSentiment, showApprovalModal,
                           prevOverlayRef, history>>
    /\ lastEvent' = "traversal"
    /\ UNCHANGED notOverlay

NextOverlay ==
    \/ \E o \in Overlays : OpenOverlay(o)
    \/ \E o \in Overlays : CloseOverlay(o)
    \/ BrowserBack
    \/ HistoryBack

SpecOverlay == InitOverlay /\ [][NextOverlay]_vars

\* ------------------------------------------------------- store: definitions
\* The settings/companyKnowledge document, written by saveAdminRules and
\* saveCompanyKnowledge and read by getAdminRules and processFile, and the
\* admin's knowledge panel (handleSaveInstructions, handleKbUpload, file
\* removal). A text is the sequence of its lines.
RuleTexts == {<<"Be polite">>, <<"Never discount">>}

\* The `rules` of the JSON extracted from a PDF: absent, an array or a
\* string.
JsonRules ==
    {[type |-> "undefined", value |-> <<>>],
     [type |-> "array", value |-> <<>>],
     [type |-> "array", value |-> <<"Refund in 7 days">>],
     [type |-> "string", value |-> <<"Quote list price">>]}

KbIds == {"k1", "k2"}

Settings(rules, fileName) == [rules |-> rules, fileName |-> fileName]

\* getAdminRules (lines 72-80); join('\n') of an empty array is ''.
getAdminRules(snap) ==
    IF snap # Null
    THEN IF snap.rules.type = "string" THEN snap.rules.value
         ELSE IF snap.rules.type = "array"
         THEN IF snap.rules.value = <<>> THEN <<"">> ELSE snap.rules.value
         ELSE <<"">>
    ELSE <<"">>

\* processFile, line 54: the additional instructions of the audit.
auditInstructions(knowledgeDoc) ==
    IF knowledgeDoc # Null /\ knowledgeDoc.rules.type = "string"
    THEN knowledgeDoc.rules.value
    ELSE <<"">>

\* saveAdminRules (lines 64-70): setDoc with merge.
saveAdminRules(snap, rules) ==
    Settings([type |-> "string", value |-> rules],
             IF snap = Null THEN "" ELSE snap.fileName)

\* convertPdfToKnowledgeJson, line 65: rules: data.rules || [].
convertPdfToKnowledgeJson(dataRules) ==
    Settings(IF dataRules.type = "undefined"
             THEN [type |-> "array", value |-> <<>>] ELSE dataRules,
             "")

\* saveCompanyKnowledge (lines 54-62): setDoc of {...knowledge, fileName}
\* with merge.
saveCompanyKnowledge(snap, knowledge, fileName) ==
    Settings(knowledge.rules,
             IF fileName # "" THEN fileName
             ELSE IF knowledge.fileName # "" THEN knowledge.fileName
             ELSE "Unknown")

InitStore ==
    /\ companyKnowledge \in
          {Null, Settings([type |-> "string", value |-> <<"Be polite">>], ""),
           Settings([type |-> "array", value |-> <<"Refund in 7 days">>],
                    "old.pdf")}
    /\ knowledgeBaseFiles = {}
    /\ kbList = {}
    /\ instructions = <<"">>
    /\ isSavingInstructions = FALSE
    /\ savingRules = <<"">>
    /\ isKbUploading = FALSE
    /\ kbError = <<>>
    /\ kbpc = "idle"
    /\ knowledgeJson = Null
    /\ kbData = ""
    /\ lastSavedRules = <<>>
    /\ user = [id |-> "u1", role |-> "ADMIN"]
    /\ recentUploads = <<>>
    /\ isLoaded = FALSE
    /\ callReports = [r \in ReportIds |-> NoReport]
    /\ saving = {}
    /\ deleting = {}
    /\ usedIds = {}
    /\ lastDelete = NoDelete
    /\ loadResult = "none"
    /\ IdleScore
    /\ InitRetryVars
    /\ IdleHandler
    /\ IdleUpload
    /\ IdleApp
    /\ IdleOverlay
    /\ IdleLive

\* The admin types into the rules box.
EditInstructions(text) ==
    /\ isLoaded /\ user.role = "ADMIN"
    /\ instructions # text
    /\ instructions' = text
    /\ UNCHANGED <<companyKnowledge, knowledgeBaseFiles, kbList,
                   isSavingInstructions, savingRules, isKbUploading, kbError,
                   kbpc, knowledgeJson, kbData, lastSavedRules, notStore>>

\* handleSaveInstructions up to `await saveAdminRules` (lines 276-280).
handleSaveInstructions ==
    /\ isLoaded /\ user.role = "ADMIN"
    /\ ~isSavingInstructions
    /\ isSavingInstructions' = TRUE
    /\ savingRules' = instructions
    /\ UNCHANGED <<companyKnowledge, knowledgeBaseFiles, kbList, instructions,
                   isKbUploading, kbError, kbpc, knowledgeJson, kbData,
                   lastSavedRules, notStore>>

\* saveAdminRules resolves.
SaveRulesResolves ==
    /\ isSavingInstructions
    /\ companyKnowledge' = saveAdminRules(companyKnowledge, savingRules)
    /\ lastSavedRules' = <<savingRules>>
    /\ isSavingInstructions' = FALSE
    /\ UNCHANGED <<knowledgeBaseFiles, kbList, instructions, savingRules,
                   isKbUploading, kbError, kbpc, knowledgeJson, kbData,
                   notStore>>

\* saveAdminRules rejects (lines 281-286).
SaveRulesRejects ==
    /\ isSavingInstructions
    /\ isSavingInstructions' = FALSE
    /\ UNCHANGED <<companyKnowledge, knowledgeBaseFiles, kbList, instructions,
                   savingRules, isKbUploading, kbError, kbpc, knowledgeJson,
                   kbData, lastSavedRules, notStore>>

\* handleKbUpload up to `await convertPdfToKnowledgeJson` (lines 289-298);
\* the input is disabled while a file is uploading (line 643).
handleKbUpload ==
    /\ isLoaded /\ user.role = "ADMIN"
    /\ ~isKbUploading
    /\ kbError' = <<>>
    /\ isKbUploading' = TRUE
    /\ kbpc' = "convert"
    /\ UNCHANGED <<companyKnowledge, knowledgeBaseFiles, kbList, instructions,
                   isSavingInstructions, savingRules, knowledgeJson, kbData,
                   lastSavedRules, notStore>>

\* convertPdfToKnowledgeJson resolves; saveCompanyKnowledge is called.
ConvertResolves(dataRules) ==
    /\ kbpc = "convert"
    /\ knowledgeJson' = convertPdfToKnowledgeJson(dataRules)
    /\ kbpc' = "saveCompanyKnowledge"
    /\ UNCHANGED <<companyKnowledge, knowledgeBaseFiles, kbList, instructions,
                   isSavingInstructions, savingRules, isKbUploading, kbError,
                   kbData, lastSavedRules, notStore>>

\* saveCompanyKnowledge resolves; addKnowledgeBaseToFirestore is called
\* with a new id (lines 300-308).
SaveKnowledgeResolves(id) ==
    /\ kbpc = "saveCompanyKnowledge"
    /\ id \notin knowledgeBaseFiles
    /\ companyKnowledge' =
          saveCompanyKnowledge(companyKnowledge, knowledgeJson, "kb.pdf")
    /\ kbData' = id
    /\ kbpc' = "addKnowledgeBase"
    /\ UNCHANGED <<knowledgeBaseFiles, kbList, instructions,
                   isSavingInstructions, savingRules, isKbUploading, kbError,
                   knowledgeJson, lastSavedRules, notStore>>

\* addKnowledgeBaseToFirestore resolves; getKnowledgeBases is called.
AddKnowledgeBaseResolves ==
    /\ kbpc = "addKnowledgeBase"
    /\ knowledgeBaseFiles' = knowledgeBaseFiles \cup {kbData}
    /\ kbpc' = "getKnowledgeBases"
    /\ UNCHANGED <<companyKnowledge, kbList, instructions,
                   isSavingInstructions, savingRules, isKbUploading, kbError,
                   knowledgeJson, kbData, lastSavedRules, notStore>>

\* getKnowledgeBases resolves; the finally runs (lines 309-316).
GetKnowledgeBasesResolves ==
    /\ kbpc = "getKnowledgeBases"
    /\ kbList' = knowledgeBaseFiles
    /\ isKbUploading' = FALSE
    /\ kbpc' = "idle"
    /\ UNCHANGED <<companyKnowledge, knowledgeBaseFiles, instructions,
                   isSavingInstructions, savingRules, kbError, knowledgeJson,
                   kbData, lastSavedRules, notStore>>

\* An awaited step of reader.onload rejects (lines 311-316).
KbUploadRejects ==
    /\ kbpc # "idle"
    /\ kbError' = <<"Failed to process PDF.">>
    /\ isKbUploading' = FALSE
    /\ kbpc' = "idle"
    /\ UNCHANGED <<companyKnowledge, knowledgeBaseFiles, kbList, instructions,
                   isSavingInstructions, savingRules, knowledgeJson, kbData,
                   lastSavedRules, notStore>>

\* The remove button of a listed file (line 637), both calls resolving.
RemoveKnowledgeBase(id) ==
    /\ isLoaded /\ user.role = "ADMIN"
    /\ id \in kbList
    /\ knowledgeBaseFiles' = knowledgeBaseFiles \ {id}
    /\ kbList' = knowledgeBaseFiles \ {id}
    /\ UNCHANGED <<companyKnowledge, instructions, isSavingInstructions,
                   savingRules, isKbUploading, kbError, kbpc, knowledgeJson,
                   kbData, lastSavedRules, notStore>>

\* --------------------------------------------------- dashboard: definitions
\* The Dashboard's list of reports: loadData (lines 94-157),
\* handleAnalysisComplete (lines 162-184), handleDeleteCallReport (lines
\* 335-349) and the callReports collection behind them.
\* Client clock readings, and the timestamp the server gives a new report.
Times == {1, 2}
ServerTimes == {2}

\* Most backend calls of the Dashboard waiting at a time.
MaxInFlight == 2

\* The order in which a query returns the documents (by document id).
ReportOrder == <<"r1", "r2", "r3", "r4">>

Document(agentId, deleted, createdAt) ==
    [agentId |-> agentId, deletedByResponder |-> deleted,
     createdAt |-> createdAt]

\* callAnalysisConverter.fromFirestore (lines 161-205), the fields the
\* list depends on.
fromFirestore(id, data) ==
    [id |-> id, agentId |-> data.agentId,
     deletedByResponder |-> (data.deletedByResponder = "true"),
     createdAt |-> data.createdAt]

RECURSIVE insertReport(_, _)
insertReport(x, sorted) ==
    IF sorted = <<>> THEN <<x>>
    ELSE IF Head(sorted).createdAt >= x.createdAt
    THEN <<Head(sorted)>> \o insertReport(x, Tail(sorted))
    ELSE <<x>> \o sorted

\* reports.sort((a, b) => b.createdAt.getTime() - a.createdAt.getTime()):
\* newest first, equal dates in their order (the sort is stable).
RECURSIVE sortReports(_)
sortReports(reports) ==
    IF reports = <<>> THEN <<>>
    ELSE insertReport(reports[Len(reports)],
                      sortReports(SubSeq(reports, 1, Len(reports) - 1)))

\* The query of lines 110-117.
inQuery(u, id) ==
    /\ callReports[id] # NoReport
    /\ u.role = "RESPONDER" => callReports[id].agentId = u.id

\* Mutant: the RESPONDER's load keeps the reports marked deleted.
notDeleted_Unfiltered(u, report) == TRUE

\* The filter of lines 125-127.
notDeleted(u, report) ==
    u.role = "RESPONDER" => report.deletedByResponder = FALSE

\* The reports loadData hands to setRecentUploads (lines 119-130).
loadedReports(u) ==
    LET queried(id) == inQuery(u, id)
        snapshot == SelectSeq(ReportOrder, queried)
        reports == [i \in DOMAIN snapshot |->
                       fromFirestore(snapshot[i], callReports[snapshot[i]])]
        kept(report) == notDeleted(u, report)
    IN  sortReports(SelectSeq(reports, kept))

reportIds(reports) == {reports[i].id : i \in DOMAIN reports}

InitDash ==
    /\ user \in {[id |-> "u1", role |-> "RESPONDER"],
                 [id |-> "u1", role |-> "ADMIN"]}
    /\ recentUploads = <<>>
    /\ isLoaded = FALSE
    /\ \E d1 \in {NoReport} \cup {Document("u1", f, t) :
                                     f \in {"true", "false"}, t \in Times},
          d2 \in {NoReport, Document("u2", "false", 1),
                  Document("u1", "undefined", 1)} :
          callReports = [r \in ReportIds |->
                            IF r = "r1" THEN d1
                            ELSE IF r = "r2" THEN d2 ELSE NoReport]
    /\ saving = {}
    /\ deleting = {}
    /\ usedIds = {"r1", "r2"}
    /\ lastDelete = NoDelete
    /\ loadResult = "none"
    /\ IdleScore
    /\ InitRetryVars
    /\ IdleHandler
    /\ IdleUpload
    /\ IdleApp
    /\ IdleOverlay
    /\ IdleStore
    /\ IdleLive

\* loadData: the rules, the knowledge files and the reports are read; the
\* reports are filtered, sorted and set (lines 95-130).
LoadResolves ==
    /\ ~isLoaded
    /\ recentUploads' = loadedReports(user)
    /\ isLoaded' = TRUE
    /\ loadResult' = "resolved"
    /\ instructions' = getAdminRules(companyKnowledge)
    /\ kbList' = knowledgeBaseFiles
    /\ UNCHANGED <<user, callReports, saving, deleting, usedIds, lastDelete,
                   overlayVars, liveVars, earlyVars>>
    /\ UNCHANGED <<companyKnowledge, knowledgeBaseFiles, isSavingInstructions,
                   savingRules, isKbUploading, kbError, kbpc, knowledgeJson,
                   kbData, lastSavedRules>>

\* loadData: getAdminRules, getKnowledgeBases or getDocs rejects (lines
\* 152-156).
LoadRejects ==
    /\ ~isLoaded
    /\ isLoaded' = TRUE
    /\ loadResult' = "rejected"
    /\ UNCHANGED <<user, recentUploads, callReports, saving, deleting,
                   usedIds, lastDelete, overlayVars, notDash>>

inFlight == Cardinality(saving) + Cardinality(deleting)

\* handleAnalysisComplete up to `await setDoc` (lines 162-173); FileUpload
\* is rendered for a RESPONDER only (line 690).
handleAnalysisComplete(id, now) ==
    /\ isLoaded /\ user.role = "RESPONDER"
    /\ id \notin usedIds
    /\ inFlight < MaxInFlight
    /\ usedIds' = usedIds \cup {id}
    /\ saving' = saving \cup
          {[id |-> id, agentId |-> user.id, deletedByResponder |-> FALSE,
            createdAt |-> now]}
    /\ UNCHANGED <<user, recentUploads, isLoaded, callReports, deleting,
                   lastDelete, loadResult, overlayVars, notDash>>

\* setDoc resolves (lines 174-178, 183): the report is stored with the
\* server's timestamp, put into the list and selected.
SaveResolves(callReportToSave, serverTimestamp) ==
    /\ callReportToSave \in saving
    /\ saving' = saving \ {callReportToSave}
    /\ callReports' = [callReports EXCEPT ![callReportToSave.id] =
                          Document(callReportToSave.agentId, "false",
                                   serverTimestamp)]
    /\ recentUploads' = sortReports(<<callReportToSave>> \o recentUploads)
    /\ setOverlay("selectedCall", TRUE)
    /\ lastEvent' = "open"
    /\ UNCHANGED <<user, isLoaded, deleting, usedIds, lastDelete, loadResult,
                   notDash>>

\* setDoc rejects (lines 179-183): the report is selected all the same.
SaveRejects(callReportToSave) ==
    /\ callReportToSave \in saving
    /\ saving' = saving \ {callReportToSave}
    /\ setOverlay("selectedCall", TRUE)
    /\ lastEvent' = "open"
    /\ UNCHANGED <<user, recentUploads, isLoaded, callReports, deleting,
                   usedIds, lastDelete, loadResult, notDash>>

Outcome(id, outcome) == [id |-> id, role |-> user.role, outcome |-> outcome]

\* handleDeleteCallReport, confirmed, up to its `await` (lines 335-344).
handleDeleteCallReport(reportId) ==
    /\ isLoaded
    /\ reportId \in reportIds(recentUploads)
    /\ reportId \notin deleting
    /\ inFlight < MaxInFlight
    /\ deleting' = deleting \cup {reportId}
    /\ UNCHANGED <<user, recentUploads, isLoaded, callReports, saving,
                   usedIds, lastDelete, loadResult, overlayVars, notDash>>

\* handleDeleteCallReport with the confirmation cancelled (line 337).
CancelDelete(reportId) ==
    /\ isLoaded
    /\ reportId \in reportIds(recentUploads)
    /\ lastDelete' = Outcome(reportId, "cancelled")
    /\ UNCHANGED <<user, recentUploads, isLoaded, callReports, saving,
                   deleting, usedIds, loadResult, overlayVars, notDash>>

\* Mutant: a RESPONDER's delete removes the document.
backendDelete_Hard(u, reportId) ==
    [callReports EXCEPT ![reportId] = NoReport]

\* The backend operation of lines 340-344: updateCallReportDeletedStatus
\* for a RESPONDER, deleteDoc for an ADMIN.
backendDelete(u, reportId) ==
    IF u.role = "RESPONDER"
    THEN [callReports EXCEPT ![reportId].deletedByResponder = "true"]
    ELSE [callReports EXCEPT ![reportId] = NoReport]

\* The backend operation resolves and the report leaves the list (line
\* 345); updateDoc resolves only for a document that exists.
DeleteResolves(reportId) ==
    /\ reportId \in deleting
    /\ user.role = "RESPONDER" => callReports[reportId] # NoReport
    /\ deleting' = deleting \ {reportId}
    /\ callReports' = backendDelete(user, reportId)
    /\ recentUploads' =
          LET keep(report) == report.id # reportId
          IN  SelectSeq(recentUploads, keep)
    /\ lastDelete' = Outcome(reportId, "succeeded")
    /\ UNCHANGED <<user, isLoaded, saving, usedIds, loadResult, overlayVars,
                   notDash>>

\* The backend operation rejects (lines 346-348).
DeleteRejects(reportId) ==
    /\ reportId \in deleting
    /\ deleting' = deleting \ {reportId}
    /\ lastDelete' = Outcome(reportId, "failed")
    /\ UNCHANGED <<user, recentUploads, isLoaded, callReports, saving,
                   usedIds, loadResult, overlayVars, notDash>>

\* An ADMIN in another session removes a report.
OtherAdminDeletes(reportId) ==
    /\ callReports[reportId] # NoReport
    /\ callReports' = [callReports EXCEPT ![reportId] = NoReport]
    /\ UNCHANGED <<user, recentUploads, isLoaded, saving, deleting, usedIds,
                   lastDelete, loadResult, overlayVars, notDash>>

NextDash ==
    \/ LoadResolves
    \/ LoadRejects
    \/ \E id \in ReportIds, now \in Times : handleAnalysisComplete(id, now)
    \/ \E r \in saving, t \in ServerTimes : SaveResolves(r, t)
    \/ \E r \in saving : SaveRejects(r)
    \/ \E id \in ReportIds : handleDeleteCallReport(id)
    \/ \E id \in ReportIds : CancelDelete(id)
    \/ \E id \in ReportIds : DeleteResolves(id)
    \/ \E id \in ReportIds : DeleteRejects(id)
    \/ \E id \in ReportIds : OtherAdminDeletes(id)

SpecDash == InitDash /\ [][NextDash]_vars

NextStore ==
    \/ LoadResolves
    \/ LoadRejects
    \/ \E text \in RuleTexts : EditInstructions(text)
    \/ handleSaveInstructions
    \/ SaveRulesResolves
    \/ SaveRulesRejects
    \/ handleKbUpload
    \/ \E dataRules \in JsonRules : ConvertResolves(dataRules)
    \/ \E id \in KbIds : SaveKnowledgeResolves(id)
    \/ AddKnowledgeBaseResolves
    \/ GetKnowledgeBasesResolves
    \/ KbUploadRejects
    \/ \E id \in KbIds : RemoveKnowledgeBase(id)

SpecStore == InitStore /\ [][NextStore]_vars

\* -------------------------------------------------------- live: definitions
\* The LiveCopilot component: toggleSession (lines 35-78) and the
\* onTranscript and onSuggestion callbacks it hands to startLiveCopilot.
\* An entry is numbered by the callback that created it.
MaxTranscripts == 22
MaxSuggestions == 16

\* Most cards in the list at a time that come from a tagged text.
MaxTagged == 1

PlainText == <<"o", "k">>
TaggedText == <<"[", "t", "]", " ", "w", "r", "o", "n", "g">>
SuggestionTexts == {<<>>, <<" ">>, <<" ", " ">>, PlainText, TaggedText}

\* prev.slice(-n)
sliceLast(prev, n) ==
    IF Len(prev) <= n THEN prev ELSE SubSeq(prev, Len(prev) - n + 1, Len(prev))

\* prev.slice(0, n)
sliceFirst(prev, n) == IF Len(prev) <= n THEN prev ELSE SubSeq(prev, 1, n)

\* Mutant: the transcript keeps one entry more.
onTranscript_KeepMore(prev, entry) == Append(sliceLast(prev, 21), entry)

\* onTranscript (lines 46-48): [...prev.slice(-20), entry]
onTranscript(prev, entry) == Append(sliceLast(prev, 20), entry)

\* Positions of the first "[" and of the first "]" after it; 0 if none:
\* text.match(/\[(.*?)\]/)
tagOpen(text) ==
    LET opens == {i \in DOMAIN text :
                     /\ text[i] = "["
                     /\ \E j \in DOMAIN text : j > i /\ text[j] = "]"}
    IN  IF opens = {} THEN 0
        ELSE CHOOSE i \in opens : \A k \in opens : i <= k

tagClose(text) ==
    LET closes == {j \in DOMAIN text : j > tagOpen(text) /\ text[j] = "]"}
    IN  IF tagOpen(text) = 0 THEN 0
        ELSE CHOOSE j \in closes : \A k \in closes : j <= k

\* tagMatch[1]; <<>> stands for undefined as well.
reviewTag(text) ==
    IF tagOpen(text) = 0 THEN <<>>
    ELSE SubSeq(text, tagOpen(text) + 1, tagClose(text) - 1)

\* text.replace(/\[.*?\]/, '').trim() when the text has a tag (lines 53-57)
cleanedText(text) ==
    IF tagOpen(text) = 0 THEN text
    ELSE trim(SubSeq(text, 1, tagOpen(text) - 1)
              \o SubSeq(text, tagClose(text) + 1, Len(text)))

\* Line 63.
suggestionType(text) ==
    IF \/ includes(toLowerCase(text), <<"c", "a", "u", "t", "i", "o", "n">>)
       \/ includes(toLowerCase(text), <<"w", "r", "o", "n", "g">>)
       \/ includes(toLowerCase(text),
                   <<"c", "o", "r", "r", "e", "c", "t", "i", "o", "n">>)
    THEN "warning" ELSE "answer"

Suggestion(n, text) ==
    [n |-> n, text |-> cleanedText(text), type |-> suggestionType(text),
     reviewTag |-> reviewTag(text)]

\* Line 50: if (!text.trim()) return
blankSuggestion(text) == trim(text) = <<>>

\* onSuggestion (lines 49-66): the new list.
onSuggestion(prev, n, text) ==
    IF blankSuggestion(text) THEN prev
    ELSE sliceFirst(<<Suggestion(n, text)>> \o prev, 15)

InitLive ==
    /\ isActive = FALSE
    /\ isPreparing = FALSE
    /\ showGuide = TRUE
    /\ transcript = <<>>
    /\ suggestions = <<>>
    /\ transcriptCalls = 0
    /\ suggestionsAdded = 0
    /\ lastSuggestionText = <<>>
    /\ IdleScore
    /\ InitRetryVars
    /\ IdleHandler
    /\ IdleUpload
    /\ IdleApp
    /\ IdleDash
    /\ IdleOverlay
    /\ IdleStore

\* toggleSession with no session active, up to its first `await` (lines
\* 39-43).
StartSession ==
    /\ ~isActive /\ ~isPreparing
    /\ isPreparing' = TRUE
    /\ showGuide' = FALSE
    /\ UNCHANGED <<isActive, transcript, suggestions, transcriptCalls,
                   suggestionsAdded, lastSuggestionText, notLive>>

\* prepareLiveContext and startLiveCopilot resolve (lines 43-77).
SessionStarts ==
    /\ isPreparing
    /\ isActive' = TRUE
    /\ isPreparing' = FALSE
    /\ UNCHANGED <<showGuide, transcript, suggestions, transcriptCalls,
                   suggestionsAdded, lastSuggestionText, notLive>>

\* prepareLiveContext or startLiveCopilot rejects (lines 72-77).
SessionFails ==
    /\ isPreparing
    /\ isPreparing' = FALSE
    /\ UNCHANGED <<isActive, showGuide, transcript, suggestions,
                   transcriptCalls, suggestionsAdded, lastSuggestionText,
                   notLive>>

\* toggleSession with a session active (lines 36-38), or onError (lines
\* 67-71).
StopSession ==
    /\ isActive
    /\ isActive' = FALSE
    /\ UNCHANGED <<isPreparing, showGuide, transcript, suggestions,
                   transcriptCalls, suggestionsAdded, lastSuggestionText,
                   notLive>>

\* The session calls onTranscript.
TranscriptArrives ==
    /\ isActive \/ isPreparing
    /\ transcriptCalls < MaxTranscripts
    /\ transcriptCalls' = transcriptCalls + 1
    /\ transcript' = onTranscript(transcript, [n |-> transcriptCalls + 1])
    /\ UNCHANGED <<isActive, isPreparing, showGuide, suggestions,
                   suggestionsAdded, lastSuggestionText, notLive>>

tagged == {i \in DOMAIN suggestions : suggestions[i].reviewTag # <<>>}

\* The session calls onSuggestion(text).
SuggestionArrives(text) ==
    /\ isActive \/ isPreparing
    /\ text = TaggedText => Cardinality(tagged) < MaxTagged
    /\ lastSuggestionText' = <<text>>
    /\ suggestions' = onSuggestion(suggestions, suggestionsAdded + 1, text)
    /\ suggestionsAdded' =
          IF suggestions' = suggestions THEN suggestionsAdded
          ELSE suggestionsAdded + 1
    /\ suggestionsAdded' <= MaxSuggestions
    /\ UNCHANGED <<isActive, isPreparing, showGuide, transcript,
                   transcriptCalls, notLive>>

NextLive ==
    \/ StartSession
    \/ SessionStarts
    \/ SessionFails
    \/ StopSession
    \/ TranscriptArrives
    \/ \E text \in SuggestionTexts : SuggestionArrives(text)

SpecLive == InitLive /\ [][NextLive]_vars

\* ------------------------------------------------------ score: properties
Abs(x) == IF x < 0 THEN -x ELSE x

\* r is an integer nearest to the rational num/den (den > 0).
Nearest(r, num, den) == 2 * Abs(den * r - num) <= den

Called == score # NoScore
Compared == Called /\ last # NoCall

\* The current call and the previous one agree on everything but ...
SameButCompliance ==
    /\ last.buyingSignals = buyingSignals
    /\ last.leadType = leadType
    /\ last.relationshipType = relationshipType
    /\ last.dealOutcome = dealOutcome

SameButSignals ==
    /\ last.compliance = compliance
    /\ last.leadType = leadType
    /\ last.relationshipType = relationshipType
    /\ last.dealOutcome = dealOutcome

SameButOutcome ==
    /\ last.compliance = compliance
    /\ last.buyingSignals = buyingSignals
    /\ last.leadType = leadType
    /\ last.relationshipType = relationshipType

OneMorePassed ==
    \E key \in ChecklistKeySet :
        /\ last.compliance[key] = FALSE
        /\ compliance = [last.compliance EXCEPT ![key] = TRUE]

Rejections == {"HardRejection", "SoftRejection"}
FreshProspect == leadType = "NEW_LEAD" /\ relationshipType = "LEAD"
LateChecks == {"priceAdherence", "objectionHandled", "hardCloseAttempted"}
CountTrue(keys) == Cardinality({key \in keys : compliance[key]})

\* C1: every call returns an integer between 0 and 100 inclusive, whatever
\* the flags, the lead category, the signal count and the outcome.
C1_ScoreInRange == Called => score \in 0..100

C1_Witness ==
    /\ Called /\ score = 100 /\ buyingSignals > 5
    /\ \A key \in ChecklistKeySet : compliance[key]

\* C2: with the other arguments fixed, turning one compliance flag from
\* false to true never lowers the returned score.
C2_MonotoneInChecks ==
    (Compared /\ SameButCompliance /\ OneMorePassed) => last.score <= score

C2_Witness ==
    /\ Compared /\ SameButCompliance /\ OneMorePassed
    /\ dealOutcome = "HardRejection"
    /\ last.score < score

\* C3: with the other arguments fixed, a larger buying-signal count never
\* lowers the returned score.
C3_MonotoneInSignals ==
    (Compared /\ SameButSignals /\ last.buyingSignals < buyingSignals)
        => last.score <= score

C3_Witness ==
    /\ Compared /\ SameButSignals
    /\ last.buyingSignals = 4 /\ buyingSignals = 7
    /\ last.score < score

\* C4: against the score of a non-rejection outcome on the same other
\* arguments, HardRejection returns that score times 0.15 rounded to the
\* nearest integer, SoftRejection that score times 0.6 rounded, and every
\* other outcome returns it unscaled.
C4_RejectionScaling ==
    /\ (Called /\ dealOutcome \notin Rejections) => score = finalScore
    /\ (Compared /\ SameButOutcome /\ last.dealOutcome \notin Rejections) =>
          /\ dealOutcome = "HardRejection" => Nearest(score, 15 * last.score, 100)
          /\ dealOutcome = "SoftRejection" => Nearest(score, 6 * last.score, 10)
          /\ dealOutcome \notin Rejections => score = last.score

C4_Witness ==
    /\ Compared /\ SameButOutcome
    /\ last.dealOutcome = "StrongInterest" /\ last.score = 70
    /\ dealOutcome = "HardRejection" /\ score = 11

\* C5: for OLD_LEAD or CLIENT only the three late checks count, over a
\* denominator of 3, and the two intro checks have no influence on the
\* score; for NEW_LEAD with LEAD all five checks count over 5.
C5_IntroChecksDropped ==
    /\ (Compared /\ ~FreshProspect /\ SameButCompliance
          /\ \A key \in LateChecks : last.compliance[key] = compliance[key])
       => score = last.score
    /\ (Called /\ ~FreshProspect) =>
          Nearest(finalScore - 6 * Min(buyingSignals, 5), 70 * CountTrue(LateChecks), 3)
    /\ (Called /\ FreshProspect) =>
          Nearest(finalScore - 6 * Min(buyingSignals, 5), 70 * CountTrue(ChecklistKeySet), 5)

C5_Witness ==
    /\ Compared /\ SameButCompliance
    /\ leadType = "NEW_LEAD" /\ relationshipType = "CLIENT"
    /\ last.compliance["dmVerified"] # compliance["dmVerified"]
    /\ last.compliance["needDiscovery"] # compliance["needDiscovery"]
    /\ CountTrue(LateChecks) = 2
    /\ score = last.score /\ score = 47

\* C6: before scaling the score is min(100, round(70 * passed / applicable
\* + 6 * min(buyingSignals, 5))): at most 70 points from compliance, at
\* most 30 from buying signals, and a count above 5 scores as 5 does.
C6_UnscaledFormula ==
    Called =>
        LET keys == IF FreshProspect THEN ChecklistKeySet ELSE LateChecks
            p == CountTrue(keys)
            n == Cardinality(keys)
            boost == 6 * Min(buyingSignals, 5)
        IN  /\ \E r \in 0..200 :
                /\ Nearest(r, 70 * p + boost * n, n)
                /\ finalScore = Min(100, r)
            /\ finalScore - boost \in 0..70
            /\ boost \in 0..30
            /\ (Compared /\ SameButSignals /\ last.buyingSignals >= 5
                  /\ buyingSignals > 5) => score = last.score

C6_Witness ==
    /\ Compared /\ SameButSignals
    /\ last.buyingSignals = 5 /\ buyingSignals = 7
    /\ dealOutcome = "Neutral"
    /\ finalScore = 100 /\ score = last.score

\* ------------------------------------------------------ retry: properties
Settled == pc \in {"returned", "thrown"}

\* The messages of the modelled errors that do not contain "500".
PlainMessages == { <<>>, <<"4", "2", "9">>, <<"5", "0", "5">> }

\* The error is a server-side 500: by status, by error.code or by message.
Is500(e) ==
    e.status = <<500>> \/ e.code = <<500>> \/ e.message \notin PlainMessages

\* C8 as stated: a request that keeps failing with a 500 is invoked at most
\* twice (the initial attempt plus one retry) before the error is surfaced.
C8_AtMostOneRetry ==
    (pc = "thrown" /\ Is500(thrown.shape)) => calls <= 2

\* C8 as amended: a request that keeps failing with a 500 is invoked four
\* times in all (the initial attempt plus three retries) before its error
\* is surfaced.
C8_ThreeRetries ==
    (pc = "thrown" /\ Is500(thrown.shape)) =>
        /\ calls = DefaultRetries + 1
        /\ Len(delays) = DefaultRetries

C8_Witness ==
    /\ pc = "thrown" /\ calls = 4
    /\ thrown.shape = [message |-> <<"5", "0", "0">>, status |-> <<500>>,
                       code |-> <<500>>]

\* C9: withRetry terminates whatever the request does, after at most four
\* invocations; it resolves with the first successful result or rejects
\* with the last error; it never invokes the request after a success; and
\* the wait before the k-th retry is k * 2000 ms.
C9_CappedLinearRetry ==
    /\ [](/\ calls <= 4
          /\ Len(delays) <= 3
          /\ \A k \in DOMAIN delays : delays[k] = k * 2000
          /\ pc \in {"awaiting", "returned", "thrown"} => calls = Len(delays) + 1
          /\ pc = "sleeping" => calls = Len(delays)
          /\ pc = "returned" => result = [at |-> calls] /\ thrown = NoErr
          /\ pc = "thrown" => thrown.at = calls /\ result = NoResult)
    /\ [][Settled => (calls' = calls /\ pc' = pc)]_vars
    /\ <>Settled

C9_Witness ==
    /\ pc = "returned" /\ calls = 4 /\ result = [at |-> 4]
    /\ delays = <<2000, 4000, 6000>>

\* C10: a failure that is not a 500 (no status 500, no error.code 500, no
\* "500" in the message) is never retried: the request is not invoked
\* again and that very error is rethrown, after the first attempt when the
\* first attempt fails so.
C10_OnlyInternalErrorsRetried ==
    (err # NoErr /\ ~Is500(err.shape)) =>
        /\ pc = "thrown"
        /\ thrown = err
        /\ calls = err.at
        /\ Len(delays) = err.at - 1

C10_Witness ==
    /\ pc = "thrown" /\ calls = 1 /\ delays = <<>>
    /\ thrown = [at |-> 1, shape |-> [message |-> <<"4", "2", "9">>,
                                      status |-> <<429>>, code |-> <<400>>]]

\* ---------------------------------------------------- handler: properties
Answered(code, payload) == res = <<[status |-> code, json |-> payload]>>

\* The request lacks model or contents: the field is absent or empty, or
\* the request carries no body at all.
Missing(r) ==
    \/ r.body = NoBody
    \/ r.body.model \in { <<>>, <<"">> }
    \/ r.body.contents \in { <<>>, <<"">> }

\* C11: a request whose method is not POST is answered 405 "Method not
\* allowed"; its body is not read and no request goes to the inference API.
C11_MethodNotAllowed ==
    (hpc # "start" /\ req.method # "POST") =>
        /\ hpc = "done"
        /\ Answered(405, [error |-> "Method not allowed"])
        /\ bodyRead = FALSE
        /\ apiRequests = <<>>

C11_Witness ==
    /\ hpc = "done" /\ req.method = "GET"
    /\ req.body = [model |-> <<"gemini-2.5-flash">>, contents |-> <<"hello">>,
                   config |-> <<>>]
    /\ Answered(405, [error |-> "Method not allowed"])

\* C12: a POST request in which model or contents is missing, or which has
\* no body at all, is answered 400 "Missing model or contents" and causes
\* no request to the inference API.
C12_MissingFields ==
    (hpc # "start" /\ req.method = "POST" /\ Missing(req)) =>
        /\ hpc = "done"
        /\ Answered(400, [error |-> "Missing model or contents"])
        /\ apiRequests = <<>>

\* C13: every request gets exactly one response, with status 200, 400, 405
\* or 500; the inference API is called at most once; 200 carries the model
\* text and is sent only when the call succeeded; a failed call is answered
\* 500 "Gemini request failed"; no request stays unanswered.
C13_OneResponse ==
    /\ [](/\ Len(apiRequests) <= 1
          /\ Len(res) <= 1
          /\ hpc = "done" => Len(res) = 1
          /\ hpc # "done" => res = <<>>
          /\ \A i \in DOMAIN res :
                /\ res[i].status \in {200, 400, 405, 500}
                /\ res[i].status = 200 =>
                      /\ apiOutcome # NoOutcome /\ apiOutcome.ok
                      /\ res[i].json = [text |-> apiOutcome.value]
          /\ (apiOutcome # NoOutcome /\ ~apiOutcome.ok) =>
                /\ Len(res) = 1
                /\ res[1].status = 500
                /\ res[1].json.error = "Gemini request failed")
    /\ <>(hpc = "done")

C13_Witness ==
    /\ hpc = "done" /\ Len(apiRequests) = 1
    /\ apiOutcome = [ok |-> TRUE, value |-> <<"answer">>]
    /\ Answered(200, [text |-> <<"answer">>])

\* ----------------------------------------------------- upload: properties
FormIs(name, phone, concern, lt, rt) ==
    /\ clientName = name /\ clientPhone = phone /\ clientConcern = concern
    /\ formLeadType = lt /\ formRelationshipType = rt

FormKept ==
    FormIs(closure.name, closure.phone, closure.concern, closure.leadType,
           closure.relationshipType)

FormReset == FormIs(<<>>, <<>>, <<>>, "NEW_LEAD", "LEAD")

\* A visible message: not null and not the empty string.
Visible(message) == message # <<>> /\ message[1] # <<>>

\* C14: every failure of processFile ends with a visible error message,
\* isProcessing false, onAnalysisComplete not invoked and the form kept;
\* onAnalysisComplete is invoked once, and the form reset, only on success.
C14_FailureSurfaced ==
    /\ upc = "failed" =>
          /\ Visible(error) /\ ~isProcessing
          /\ completed = <<>> /\ FormKept
    /\ upc = "done" =>
          /\ Len(completed) = 1 /\ FormReset /\ ~isProcessing /\ error = <<>>
    /\ completed # <<>> => upc = "done"
    /\ (upc \notin {"idle", "rejected", "done"} /\ closure # Null) => FormKept

C14_Witness ==
    /\ upc = "failed"
    /\ auditError # NoErr /\ auditError.status = <<429>>
    /\ error = << <<"API Daily Limit Reached...wait for some times.">> >>
    /\ clientName = <<"R">> /\ formLeadType = "OLD_LEAD"

\* C15: processFile called with a blank name, phone or concern, or with a
\* file of unsupported MIME type and extension, sets an error message and
\* does nothing else: isProcessing stays false and getCompanyKnowledge,
\* analyzeAudioCall and onAnalysisComplete are not invoked.
Blank(t) == t \in { <<>>, <<" ", " ">> }
C15_RejectedUpfront ==
    (/\ upc # "idle"
     /\ \/ Blank(closure.name) \/ Blank(closure.phone) \/ Blank(closure.concern)
        \/ (file.type # "audio/mpeg" /\ file.ext \notin {"mp3", "MP3"}))
    => /\ upc = "rejected"
       /\ Visible(error) /\ ~isProcessing
       /\ knowledgeCalls = 0 /\ analyzeCalls = <<>> /\ completed = <<>>
       /\ statusLog = <<>> /\ calls = 0 /\ auditRequests = 0
       /\ FormKept

C15_Witness ==
    /\ upc = "rejected"
    /\ closure.name = <<"R">> /\ closure.phone = <<" ", " ">>
    /\ file = [type |-> "audio/mpeg", ext |-> "mp3"]
    /\ Visible(error)

\* C16: the conversionScore of the returned analysis is the deterministic
\* score of the response's compliance, buyingSignals (0 when absent) and
\* dealOutcome with the uploader's lead and relationship type; a
\* conversionScore supplied by the response does not reach the result.
C16_ScoreIsDeterministic ==
    upc = "done" =>
        completed[1].conversionScore =
            calculateDeterministicScore(
                IF parsed.compliance = <<>> THEN [key \in ChecklistKeySet |-> FALSE]
                ELSE parsed.compliance[1],
                IF parsed.buyingSignals = <<>> THEN 0 ELSE parsed.buyingSignals[1],
                closure.leadType, closure.relationshipType,
                IF parsed.dealOutcome = <<>> THEN "" ELSE parsed.dealOutcome[1])

C16_Witness ==
    /\ upc = "done"
    /\ parsed.conversionScore = <<99>>
    /\ parsed.buyingSignals = <<3>>
    /\ parsed.dealOutcome = <<"HardRejection">>
    /\ closure.leadType = "OLD_LEAD"
    /\ completed[1].conversionScore = 13

\* C17: the audit request is issued only after the speech request has
\* succeeded and returned a rawTranscript; a failed speech request rejects
\* with "Speech analysis failed. ...", a response without rawTranscript
\* with "No conversation detected.", in both cases without audit request
\* and without result; the status "Detecting speech & behavioral cues..."
\* is reported before "Auditing against knowledge base...".
C17_AuditAfterSpeech ==
    /\ auditRequests <= 1
    /\ auditRequests > 0 =>
          /\ pc = "returned"
          /\ audioMetadata # NoParsed
          /\ audioMetadata.rawTranscript \in { <<"[]">>, <<"segments">> }
    /\ (upc = "failed" /\ pc = "thrown") =>
          /\ caught.isError
          /\ Head(caught.message) = "Speech analysis failed. "
          /\ auditRequests = 0 /\ completed = <<>>
    /\ (upc \in {"failed", "audit", "done"} /\ audioMetadata # NoParsed
          /\ audioMetadata.rawTranscript \in { <<>>, <<"null">> }) =>
          /\ upc = "failed"
          /\ caught = Thrown(TRUE, <<"No conversation detected.">>, <<>>)
          /\ auditRequests = 0 /\ completed = <<>>
    /\ \A j \in DOMAIN statusLog :
          statusLog[j] = "Auditing against knowledge base..." =>
              \E i \in 1..(j - 1) :
                  statusLog[i] = "Detecting speech & behavioral cues..."

C17_Witness ==
    /\ upc = "failed" /\ pc = "returned" /\ calls = 2
    /\ audioMetadata # NoParsed /\ audioMetadata.rawTranscript = <<"null">>
    /\ caught.message = <<"No conversation detected.">>

\* C18: the speech request and the audit request are both behind the
\* retry-on-500 wrapper: one 500 from either of them is retried and does
\* not by itself fail the analysis.
C18_BothRequestsRetried ==
    /\ (upc = "failed" /\ auditError # NoErr /\ auditError.status = <<500>>)
          => auditRequests > 1
    /\ (upc = "failed" /\ pc = "thrown" /\ thrown.shape.status = <<500>>)
          => calls > 1

\* -------------------------------------------------------- app: properties
\* C19: an account pending approval never reaches the dashboard. currentUser
\* holds only a profile whose status was not UNVERIFIED when it was read,
\* and a read of an UNVERIFIED profile on the sign-up, login or listener
\* path signs out and reports an error instead of setting currentUser.
C19_PendingNeverShown ==
    /\ currentUser # NoUser => currentUser.status # "UNVERIFIED"
    /\ lastRead # NoRead /\ lastRead.status = "UNVERIFIED" =>
          /\ ~lastRead.userSet
          /\ lastRead.signedOut
          /\ lastRead.errorSet
    /\ apc = "signOut" => session = SignedOut /\ submitted.message # ""
    /\ DashboardShown => currentUser.status = "VERIFIED"

\* A login with a pending account has ended: signed out, message shown.
C19_Witness ==
    /\ lastRead # NoRead
    /\ lastRead.path = "login" /\ lastRead.status = "UNVERIFIED"
    /\ apc = "idle"
    /\ session = SignedOut
    /\ currentUser = NoUser
    /\ appError = <<"Account pending admin approval.">>

\* C20: sign-up is offered only for RESPONDER: no reachable state has stage
\* 'credentials' with selectedRole ADMIN and authMode 'signup'.
C20_NoAdminSignup ==
    ~(stage = "credentials" /\ selectedRole = "ADMIN" /\ authMode = "signup")

\* C21: a sign-up whose account creation and profile write both succeed for
\* a role created VERIFIED ends with currentUser set to the new profile and
\* the session still signed in, whatever the listener did in between.
C21_SignupStaysSignedIn ==
    [][ (/\ apc = "setDoc" /\ submitted.role = "ADMIN"
         /\ userDocs[submitted.uid] = NoDoc
         /\ userDocs'[submitted.uid] # NoDoc)
        => /\ currentUser' = Profile(submitted.uid, "ADMIN", "VERIFIED")
           /\ session' = submitted.uid ]_vars

\* --------------------------------------------------- overlays: properties
\* History entries pushed by the Dashboard and not yet popped.
Pushed == Cardinality({i \in DOMAIN history : history[i] = "overlay"})

AnyOpen ==
    \/ selectedCall \/ isLiveActive \/ selectedAgentId
    \/ selectedSentiment \/ showApprovalModal

\* C25 as stated: in every state the Dashboard has pushed exactly one entry
\* when an overlay is open and none otherwise.
C25_Balanced == Pushed = (IF AnyOpen THEN 1 ELSE 0)

\* C25: once every history.back() called by the effect has been carried
\* out, the Dashboard has pushed exactly one entry when an overlay is open
\* and none otherwise; and a move back in the history closes all overlays.
C25_BalancedWhenSettled ==
    [][ /\ pendingBack' = 0 => Pushed' = (IF AnyOpen' THEN 1 ELSE 0)
        /\ Len(history') < Len(history) => ~AnyOpen' ]_vars

\* The browser's Back was pressed with an overlay open: all are closed and
\* the pushed entry is gone.
C25_Witness ==
    /\ lastEvent = "backOpen"
    /\ pendingBack = 0
    /\ ~AnyOpen
    /\ Pushed = 0

\* -------------------------------------------------- dashboard: properties
\* C22: for a RESPONDER every report in recentUploads has agentId equal to
\* the user's id and is not marked deletedByResponder, in the list and in
\* the collection.
C22_OwnLiveReports ==
    user.role = "RESPONDER" =>
       \A i \in DOMAIN recentUploads :
          /\ recentUploads[i].agentId = user.id
          /\ recentUploads[i].deletedByResponder = FALSE
          /\ callReports[recentUploads[i].id] # NoReport =>
                /\ callReports[recentUploads[i].id].agentId = user.id
                /\ callReports[recentUploads[i].id].deletedByResponder # "true"

\* A RESPONDER has loaded, completed an analysis and deleted a report; the
\* new report is in the list.
C22_Witness ==
    /\ user.role = "RESPONDER"
    /\ loadResult = "resolved"
    /\ lastDelete # NoDelete /\ lastDelete.outcome = "succeeded"
    /\ \E i \in DOMAIN recentUploads : recentUploads[i].id \in {"r3", "r4"}
    /\ \E i \in DOMAIN recentUploads : recentUploads[i].id \in {"r1", "r2"}

Listed(reports) == {reports[i].id : i \in DOMAIN reports}

C24_RulesSurvive ==
    lastSavedRules # <<>> =>
       /\ getAdminRules(companyKnowledge) = lastSavedRules[1]
       /\ auditInstructions(companyKnowledge) = lastSavedRules[1]

\* ------------------------------------------------------- live: properties
Smaller(a, b) == IF a <= b THEN a ELSE b

OnlySpaces(text) == \A i \in DOMAIN text : text[i] = " "

\* C26: the transcript holds the 21 most recent entries at most, oldest
\* first; the suggestion list holds the 15 most recent cards at most,
\* newest first; a suggestion that is blank after trimming adds no card.
C26_BoundedFeeds ==
    [][ /\ Len(transcript') = Smaller(21, transcriptCalls')
        /\ \A i \in DOMAIN transcript' :
              transcript'[i].n = transcriptCalls' - Len(transcript') + i
        /\ Len(suggestions') = Smaller(15, suggestionsAdded')
        /\ \A i \in DOMAIN suggestions' :
              suggestions'[i].n = suggestionsAdded' - i + 1
        /\ (lastSuggestionText' # <<>> /\ OnlySpaces(lastSuggestionText'[1]))
              => suggestions' = suggestions ]_vars

\* Both feeds are full and have dropped their oldest entry.
C26_Witness ==
    /\ Len(transcript) = 21 /\ transcript[1].n = 2
    /\ Len(suggestions) = 15 /\ suggestions[15].n = 2
    /\ lastSuggestionText = << <<" ">> >>

\* C27: for identical compliance flags, buying signals and deal outcome,
\* the score computed for leadType OLD_LEAD or relationshipType CLIENT is
\* never lower than the score computed for NEW_LEAD with LEAD.
C27_ReclassifyNeverLowers ==
    (/\ Compared
     /\ last.leadType = "NEW_LEAD" /\ last.relationshipType = "LEAD"
     /\ ~FreshProspect
     /\ last.compliance = compliance
     /\ last.buyingSignals = buyingSignals
     /\ last.dealOutcome = dealOutcome)
        => last.score <= score

====
